---- MODULE Spec2Model ----
(***************************************************************************)
(* A model of the http-rs server engine: the routing tree (router.rs),     *)
(* the per-connection protocol loop (connect.rs) and the accept loop with  *)
(* its connection-count semaphore (server.rs).                             *)
(*                                                                         *)
(* Text is modelled as a sequence of atoms.  A path is a sequence of       *)
(* one-character atoms ("/", "a", "*", ...); a request on the wire is a    *)
(* sequence of atoms in which "\r", "\n", " " and ":" are single bytes and *)
(* a word such as "GET" or "HTTP/1.1" is one atom.                         *)
(***************************************************************************)
EXTENDS Integers, Sequences, FiniteSets, TLC

None == "None"

(***************************************************************************)
(* Bounds of the model.                                                    *)
(***************************************************************************)
MaxCalls == 3

(***************************************************************************)
(* The state: the router, the accept loop and its tasks, one connection.  *)
(***************************************************************************)
VARIABLES
    tree,        \* the routing tree below HttpRouter.root
    panicked,    \* the caller hit todo!() and unwound
    lastCall,    \* the call made last and what it returned
    registered,  \* history: (segments, method) -> handler of the add calls that returned
    wildcards,   \* history: the add calls made with a `*` segment
    ncalls       \* the number of calls made

routerVars == <<tree, panicked, lastCall, registered, wildcards, ncalls>>

routerHistory == <<panicked, lastCall, registered, wildcards, ncalls>>

VARIABLES
    max_connections,  \* ServerConfig.max_connections
    semaphore,        \* the permits available in the Semaphore
    loopPc,           \* where run() is: "bind", "acquire", "accept" or "returned"
    permit,           \* the accept loop owns the permit of this iteration
    tasks,            \* the spawned tasks: state, owned _permit, result of process()
    accepted,         \* the number of sockets accepted
    acceptErrors,     \* the number of failed accepts (capped at 1)
    run_result        \* what run() returned, None while it runs

serverVars == <<max_connections, semaphore, loopPc, permit, tasks, accepted, acceptErrors,
                run_result>>

VARIABLES
    buffer_size,            \* HttpConnection.buffer_size
    keep_alive,             \* HttpConnection.keep_alive
    c_state,                \* ReadingHeaders, Dispatching, Writing or Closed
    buffer,                 \* buffer[..read_bytes_for_headers]
    request,                \* the request parsed from the buffer
    connection_keep_alive,  \* the keep-alive decision for the request
    handler,                \* what find_handler returned for the request
    result,                 \* what process() returned, None while it runs
    written,                \* history: the responses written to the socket
    requests,               \* history: the number of complete header blocks
    reading,                \* history: the request the last socket read was for
    failure,                \* history: the failure that hit the connection
    invoked,                \* history: the handlers called, with their request
    pending,                \* the bytes sent by the peer and not read yet
    sent,                   \* the number of requests the peer has sent
    peer_closed             \* the peer has closed its end

connVars == <<buffer_size, keep_alive, c_state, buffer, request,
              connection_keep_alive, handler, result, written, requests,
              reading, failure, invoked, pending, sent, peer_closed>>

VARIABLES
    heap,   \* the RouteNodes allocated so far; heap[1] is HttpRouter.root
    procs   \* the tasks that call add or find_handler on clones of the router

concVars == <<heap, procs>>

VARIABLE
    scan    \* a call of find_headers_end: its buffer and what it returned

VARIABLE
    body    \* an HttpBody that is read: its value, the bytes it was built
            \* from and what read_next returned so far

VARIABLES
    response,   \* an HttpResponse under construction, then sent
    writer,     \* the bytes that send wrote
    sendLog     \* the response as it was when send was called, and the
                \* chunks its body gave out

respVars == <<response, writer, sendLog>>

VARIABLE
    stream  \* a call of HttpRequest::from_stream: the byte stream, what was
            \* read of it, the request built and what its body gave out

libVars == <<concVars, scan, body, respVars, stream>>

vars == <<routerVars, serverVars, connVars, libVars>>

(***************************************************************************)
(* method.rs, handler.rs                                                   *)
(***************************************************************************)
HttpMethod == {"Get", "Post", "NoSupport"}

HandlerFn == {"h1", "h2"}

(***************************************************************************)
(* router.rs: paths and their segmentation.                                *)
(***************************************************************************)
RouterPaths ==
    { <<>>,
      <<"/">>,
      <<"/", "/">>,
      <<"/", "a">>,
      <<"/", "a", "/", "b">>,
      <<"/", "a", "/", "c">>,
      <<"/", "a", "/", "/", "b", "/">>,
      <<"/", "a", "/", "*">>,
      <<"/", ":", "a">> }

RECURSIVE TrimStart(_)
TrimStart(s) ==
    IF s # <<>> /\ Head(s) = "/" THEN TrimStart(Tail(s)) ELSE s

RECURSIVE TrimEnd(_)
TrimEnd(s) ==
    IF s # <<>> /\ s[Len(s)] = "/" THEN TrimEnd(SubSeq(s, 1, Len(s) - 1)) ELSE s

\* str::trim_matches('/')
TrimMatches(s) == TrimEnd(TrimStart(s))

\* str::split('/'): the pieces between the separators, empty pieces included;
\* acc is the list of finished pieces and cur the piece being read.
RECURSIVE SplitAcc(_, _, _)
SplitAcc(s, acc, cur) ==
    IF s = <<>> THEN Append(acc, cur)
    ELSE IF Head(s) = "/" THEN SplitAcc(Tail(s), Append(acc, cur), <<>>)
    ELSE SplitAcc(Tail(s), acc, Append(cur, Head(s)))

Split(s) == SplitAcc(s, <<>>, <<>>)

\* let segments = path.trim_matches('/').split('/').collect()
Segments(path) == Split(TrimMatches(path))

(***************************************************************************)
(* router.rs: the tree.  A node is named by the sequence of segments that  *)
(* leads to it from the root (<<>> is the root); the child map of a node n *)
(* is the set of nodes Append(n, seg) of the tree.                         *)
(***************************************************************************)
NoHandlers == [m \in HttpMethod |-> None]

\* RouteNode::new / RouteNode::with_name
NewNode(name) ==
    [name |-> name, handlers |-> NoHandlers, wildcard_handler |-> None]

\* HttpRouter::default
EmptyTree == (<<>> :> NewNode(<<"/">>))

HasChild(t, node, segment) == Append(node, segment) \in DOMAIN t

\* static_routes.write().insert(segment, new_node): a new, empty node takes
\* the key, and whatever hung below the key before is no longer reachable.
IsBelow(n, child) ==
    /\ Len(n) >= Len(child)
    /\ SubSeq(n, 1, Len(child)) = child

InsertChild(t, node, segment) ==
    LET child == Append(node, segment)
        kept  == {n \in DOMAIN t : ~IsBelow(n, child)}
    IN  [n \in kept \cup {child} |->
            IF n = child THEN NewNode(segment) ELSE t[n]]

\* The loop of HttpRouter::add over the segments; the result is the tree, the
\* node reached, and whether the call hit todo!().
RECURSIVE AddWalk(_, _, _)
AddWalk(t, current, segments) ==
    IF segments = <<>> THEN [tree |-> t, current |-> current, panicked |-> FALSE]
    ELSE LET segment == Head(segments) IN
         IF segment = <<>> THEN AddWalk(t, current, Tail(segments))
         ELSE IF Head(segment) = ":" THEN
             [tree |-> t, current |-> current, panicked |-> TRUE]
         ELSE IF segment = <<"*">> THEN
             [tree |-> t, current |-> current, panicked |-> TRUE]
         ELSE LET t2 == IF ~HasChild(t, current, segment)
                        THEN InsertChild(t, current, segment)
                        ELSE t
              IN  AddWalk(t2, Append(current, segment), Tail(segments))

\* handlers.entry(method).or_insert(handler): the first handler stays.
InsertHandler_KeepsFirst(t, node, method, hfn) ==
    IF t[node].handlers[method] # None THEN t
    ELSE [t EXCEPT ![node].handlers[method] = hfn]

\* current.handlers.write().insert(method, handler)
InsertHandler(t, node, method, hfn) ==
    [t EXCEPT ![node].handlers[method] = hfn]

\* HttpRouter::add
RouterAdd(t, method, path, hfn) ==
    LET w == AddWalk(t, <<>>, Segments(path)) IN
    IF w.panicked THEN [tree |-> w.tree, panicked |-> TRUE]
    ELSE [tree |-> InsertHandler(w.tree, w.current, method, hfn),
          panicked |-> FALSE]

\* The loop of find_handler without `if segment.is_empty() { continue; }`.
RECURSIVE FindWalk_KeepsEmpty(_, _, _)
FindWalk_KeepsEmpty(t, current, segments) ==
    IF segments = <<>> THEN [tree |-> t, current |-> current, found |-> TRUE]
    ELSE LET segment == Head(segments)
             t2 == IF ~HasChild(t, current, segment)
                   THEN InsertChild(t, current, segment)
                   ELSE t
         IN  FindWalk_KeepsEmpty(t2, Append(current, segment), Tail(segments))

\* The loop of HttpRouter::find_handler over the segments.
RECURSIVE FindWalk(_, _, _)
FindWalk(t, current, segments) ==
    IF segments = <<>> THEN [tree |-> t, current |-> current, found |-> TRUE]
    ELSE LET segment == Head(segments) IN
         IF segment = <<>> THEN FindWalk(t, current, Tail(segments))
         ELSE LET t2 == IF ~HasChild(t, current, segment)
                        THEN InsertChild(t, current, segment)
                        ELSE t
              IN  IF ~HasChild(t2, current, segment)
                  THEN [tree |-> t2, current |-> current, found |-> FALSE]
                  ELSE FindWalk(t2, Append(current, segment), Tail(segments))

\* A find_handler that falls back to the Get handler of the node when the
\* method has none.
RouterFind_AnyMethod(t, path, method) ==
    LET w == FindWalk(t, <<>>, Segments(path))
        hs == w.tree[w.current].handlers
    IN  [tree |-> w.tree,
         result |-> IF ~w.found THEN None
                    ELSE IF hs[method] # None THEN hs[method]
                    ELSE hs["Get"]]

\* HttpRouter::find_handler: the tree it leaves and the handler it returns.
RouterFind(t, path, method) ==
    LET w == FindWalk(t, <<>>, Segments(path)) IN
    [tree |-> w.tree,
     result |-> IF w.found THEN w.tree[w.current].handlers[method] ELSE None]

(***************************************************************************)
(* The router under a sequence of calls made by one caller.                *)
(***************************************************************************)

NoCall == [op |-> "none", method |-> None, path |-> <<>>, handler |-> None,
           result |-> None, replaced |-> None]

\* The non-empty segments of a path, in order: the route the path names.
RECURSIVE NonEmpty(_)
NonEmpty(segs) ==
    IF segs = <<>> THEN <<>>
    ELSE IF Head(segs) = <<>> THEN NonEmpty(Tail(segs))
    ELSE <<Head(segs)>> \o NonEmpty(Tail(segs))

Route(path) == NonEmpty(Segments(path))

HasStar(path) == \E i \in 1..Len(Route(path)) : Route(path)[i] = <<"*">>

\* What handlers.insert(method, handler) finds under the key at the node of
\* a route: the handler that is there, None when the node or the key is not.
HandlerAt(t, route, method) ==
    IF route \in DOMAIN t THEN t[route].handlers[method] ELSE None

\* router.add(method, path, handler).await
Add(method, path, hfn) ==
    /\ ~panicked
    /\ ncalls < MaxCalls
    /\ LET r == RouterAdd(tree, method, path, hfn) IN
       /\ tree' = r.tree
       /\ panicked' = r.panicked
       /\ lastCall' = [op |-> "add", method |-> method, path |-> path,
                       handler |-> hfn,
                       result |-> IF r.panicked THEN "panic" ELSE "self",
                       replaced |-> IF r.panicked THEN None
                                    ELSE HandlerAt(tree, Route(path), method)]
       /\ registered' = IF r.panicked THEN registered
                        ELSE (<<Route(path), method>> :> hfn) @@ registered
       /\ wildcards' = IF HasStar(path)
                       THEN wildcards \cup {[method |-> method, path |-> path,
                                             handler |-> hfn]}
                       ELSE wildcards
    /\ ncalls' = ncalls + 1
    /\ UNCHANGED <<serverVars, connVars, libVars>>

\* router.find_handler(path, method).await
FindHandler(path, method) ==
    /\ ~panicked
    /\ ncalls < MaxCalls
    /\ LET r == RouterFind(tree, path, method) IN
       /\ tree' = r.tree
       /\ lastCall' = [op |-> "find", method |-> method, path |-> path,
                       handler |-> None, result |-> r.result,
                       replaced |-> None]
    /\ ncalls' = ncalls + 1
    /\ UNCHANGED <<panicked, registered, wildcards>>
    /\ UNCHANGED <<serverVars, connVars, libVars>>

RouterNext ==
    \/ \E m \in HttpMethod, p \in RouterPaths, h \in HandlerFn : Add(m, p, h)
    \/ \E p \in RouterPaths, m \in HttpMethod : FindHandler(p, m)


(***************************************************************************)
(* C8: for every path p and method m, find_handler(p, m) returns the       *)
(* handler of the last add(m, q, h) that returned with q naming the same   *)
(* route as p, and None when no add for that route and method returned: a  *)
(* registered (path, method) is found, another method at the same path and *)
(* a path that was never registered are not.                               *)
(***************************************************************************)
Expected(path, method) ==
    IF <<Route(path), method>> \in DOMAIN registered
    THEN registered[<<Route(path), method>>]
    ELSE None

C8_ExactMatch ==
    /\ \A p \in RouterPaths, m \in HttpMethod :
          RouterFind(tree, p, m).result = Expected(p, m)
    /\ lastCall.op = "find" => lastCall.result = Expected(lastCall.path, lastCall.method)
    /\ lastCall.op = "add" /\ lastCall.result = "self" =>
          RouterFind(tree, lastCall.path, lastCall.method).result = lastCall.handler

C8_Witness ==
    /\ lastCall.op = "find"
    /\ lastCall.path = <<"/", "a", "/", "b">>
    /\ lastCall.method = "Get"
    /\ lastCall.result \in HandlerFn
    /\ <<Route(<<"/", "a", "/", "b">>), "Post">> \notin DOMAIN registered
    /\ RouterFind(tree, <<"/", "a", "/", "b">>, "Post").result = None
    /\ RouterFind(tree, <<"/", "a", "/", "c">>, "Get").result = None

(***************************************************************************)
(* C9: once add(m, p, w) was called with a `*` segment in p, find_handler  *)
(* returns w for every path below the segments that precede the `*`, for   *)
(* every method.                                                           *)
(***************************************************************************)
RECURSIVE BeforeStar(_)
BeforeStar(route) ==
    IF route = <<>> \/ Head(route) = <<"*">> THEN <<>>
    ELSE <<Head(route)>> \o BeforeStar(Tail(route))

Under(q, p) ==
    LET pre == BeforeStar(Route(p)) IN
    /\ Len(Route(q)) > Len(pre)
    /\ SubSeq(Route(q), 1, Len(pre)) = pre

C9_WildcardRoutes ==
    \A w \in wildcards : \A q \in RouterPaths, m \in HttpMethod :
        Under(q, w.path) => RouterFind(tree, q, m).result = w.handler

(***************************************************************************)
(* C10: find_handler is a read-only lookup: the routing tree after the     *)
(* call is the tree before the call.                                       *)
(***************************************************************************)
C10_FindReadOnly ==
    [][(ncalls' # ncalls /\ lastCall'.op = "find") => tree' = tree]_vars

(***************************************************************************)
(* server.rs: the accept loop of HttpServer::run and the tasks it spawns.  *)
(* A task runs HttpConnection::process; here only the position of the task *)
(* in the loop of process() and the way it ends are kept.                  *)
(***************************************************************************)
MaxConnections == 2

MaxAccepts == 3

MaxServed == 1

TaskIds == 1..MaxAccepts

LiveStates == {"ReadingHeaders", "Dispatching", "Writing"}

Results == {"Ok", "IOError", "TimeoutError", "ProtocolError"}


Live == {i \in TaskIds : tasks[i].st \in LiveStates}

\* TcpListener::bind(&address).await returns Ok: the semaphore is made and
\* the loop is entered.
BindOk ==
    /\ loopPc = "bind"
    /\ loopPc' = "acquire"
    /\ UNCHANGED <<run_result, max_connections, semaphore, permit, tasks, accepted,
                   acceptErrors>>
    /\ UNCHANGED <<routerVars, connVars, libVars>>

\* TcpListener::bind(&address).await returns Err(e): `?` returns
\* ServerError::from(e), which is IOError(e).
BindErr ==
    /\ loopPc = "bind"
    /\ loopPc' = "returned"
    /\ run_result' = "IOError"
    /\ UNCHANGED <<max_connections, semaphore, permit, tasks, accepted, acceptErrors>>
    /\ UNCHANGED <<routerVars, connVars, libVars>>

\* An accept loop that takes a permit without waiting for a free one.
Acquire_NoWait ==
    /\ loopPc = "acquire"
    /\ semaphore' = IF semaphore > 0 THEN semaphore - 1 ELSE 0
    /\ permit' = TRUE
    /\ loopPc' = "accept"
    /\ UNCHANGED <<run_result, max_connections, tasks, accepted, acceptErrors>>
    /\ UNCHANGED <<routerVars, connVars, libVars>>

\* semaphore.clone().acquire_owned().await returns Ok(permit)
Acquire ==
    /\ loopPc = "acquire"
    /\ semaphore > 0
    /\ semaphore' = semaphore - 1
    /\ permit' = TRUE
    /\ loopPc' = "accept"
    /\ UNCHANGED <<run_result, max_connections, tasks, accepted, acceptErrors>>
    /\ UNCHANGED <<routerVars, connVars, libVars>>

\* listener.accept().await returns Ok; the connection is built and spawned,
\* and the task takes the permit.
AcceptOk ==
    /\ loopPc = "accept"
    /\ accepted < MaxAccepts
    /\ accepted' = accepted + 1
    /\ tasks' = [tasks EXCEPT ![accepted + 1] =
                    [st |-> "ReadingHeaders", permit |-> permit, served |-> 0, result |-> None]]
    /\ permit' = FALSE
    /\ loopPc' = "acquire"
    /\ UNCHANGED <<run_result, max_connections, semaphore, acceptErrors>>
    /\ UNCHANGED <<routerVars, connVars, libVars>>

\* A failed accept that leaks the permit of the iteration.
AcceptErr_KeepsPermit ==
    /\ loopPc = "accept"
    /\ permit' = FALSE
    /\ loopPc' = "acquire"
    /\ acceptErrors' = 1
    /\ UNCHANGED <<run_result, max_connections, semaphore, tasks, accepted>>
    /\ UNCHANGED <<routerVars, connVars, libVars>>

\* A failed accept that ends run() with the error.
AcceptErr_Returns ==
    /\ loopPc = "accept"
    /\ semaphore' = IF permit THEN semaphore + 1 ELSE semaphore
    /\ permit' = FALSE
    /\ loopPc' = "returned"
    /\ run_result' = "IOError"
    /\ acceptErrors' = 1
    /\ UNCHANGED <<max_connections, tasks, accepted>>
    /\ UNCHANGED <<routerVars, connVars, libVars>>

\* listener.accept().await returns Err; `continue` drops the permit.
AcceptErr ==
    /\ loopPc = "accept"
    /\ semaphore' = IF permit THEN semaphore + 1 ELSE semaphore
    /\ permit' = FALSE
    /\ loopPc' = "acquire"
    /\ acceptErrors' = 1
    /\ UNCHANGED <<run_result, max_connections, tasks, accepted>>
    /\ UNCHANGED <<routerVars, connVars, libVars>>

\* process(): the header block is complete.
TaskHeadersRead(i) ==
    /\ tasks[i].st = "ReadingHeaders"
    /\ tasks' = [tasks EXCEPT ![i].st = "Dispatching"]
    /\ UNCHANGED <<run_result, max_connections, semaphore, loopPc, permit, accepted, acceptErrors>>
    /\ UNCHANGED <<routerVars, connVars, libVars>>

\* process(): the request is parsed and the router has answered.
TaskDispatched(i) ==
    /\ tasks[i].st = "Dispatching"
    /\ tasks' = [tasks EXCEPT ![i].st = "Writing"]
    /\ UNCHANGED <<run_result, max_connections, semaphore, loopPc, permit, accepted, acceptErrors>>
    /\ UNCHANGED <<routerVars, connVars, libVars>>

\* process(): the response is sent and the loop goes round.
TaskKeepAlive(i) ==
    /\ tasks[i].st = "Writing"
    /\ tasks[i].served < MaxServed
    /\ tasks' = [tasks EXCEPT ![i].st = "ReadingHeaders",
                              ![i].served = tasks[i].served + 1]
    /\ UNCHANGED <<run_result, max_connections, semaphore, loopPc, permit, accepted, acceptErrors>>
    /\ UNCHANGED <<routerVars, connVars, libVars>>

\* The ways process() returns from a state.
Endings(st) ==
    IF st = "ReadingHeaders" THEN {"Ok", "IOError", "TimeoutError", "ProtocolError"}
    ELSE IF st = "Writing" THEN {"Ok", "IOError"}
    ELSE {}

\* A task whose error takes the other connections and the accept loop down.
TaskEnd_TearsDown(i, res) ==
    /\ tasks[i].st \in LiveStates
    /\ res \in Endings(tasks[i].st)
    /\ tasks' = [j \in TaskIds |->
                    IF tasks[j].st \in LiveStates /\ (j = i \/ res # "Ok")
                    THEN [tasks[j] EXCEPT !.st = "ended", !.permit = FALSE,
                                          !.result = res]
                    ELSE tasks[j]]
    /\ semaphore' = semaphore + Cardinality({j \in TaskIds :
                                    tasks[j].permit /\ ~tasks'[j].permit})
    /\ UNCHANGED <<run_result, max_connections, loopPc, permit, accepted, acceptErrors>>
    /\ UNCHANGED <<routerVars, connVars, libVars>>

\* process() returns; the task ends and drops _permit.
TaskEnd(i, res) ==
    /\ tasks[i].st \in LiveStates
    /\ res \in Endings(tasks[i].st)
    /\ tasks' = [tasks EXCEPT ![i].st = "ended", ![i].permit = FALSE, ![i].result = res]
    /\ semaphore' = IF tasks[i].permit THEN semaphore + 1 ELSE semaphore
    /\ UNCHANGED <<run_result, max_connections, loopPc, permit, accepted, acceptErrors>>
    /\ UNCHANGED <<routerVars, connVars, libVars>>

ServerNext ==
    \/ BindOk
    \/ BindErr
    \/ Acquire
    \/ AcceptOk
    \/ AcceptErr
    \/ \E i \in TaskIds : TaskHeadersRead(i)
    \/ \E i \in TaskIds : TaskDispatched(i)
    \/ \E i \in TaskIds : TaskKeepAlive(i)
    \/ \E i \in TaskIds, res \in Results : TaskEnd(i, res)


(***************************************************************************)
(* C1: the number of live connection tasks never exceeds max_connections;  *)
(* the accept loop waits in accept() only while it owns the permit it has  *)
(* just acquired, and a socket is accepted only by a loop that owns one;   *)
(* while max_connections tasks are live no socket is accepted.             *)
(***************************************************************************)
C1_BoundedConnections ==
    /\ [](Cardinality(Live) <= max_connections)
    /\ [](loopPc = "accept" <=> permit)
    /\ [][accepted' # accepted => permit /\ Cardinality(Live) < max_connections]_vars

C1_Witness ==
    /\ Cardinality(Live) = max_connections
    /\ semaphore = 0
    /\ loopPc = "acquire"
    /\ accepted > max_connections
    /\ \E i \in TaskIds : tasks[i].st = "ended"

(***************************************************************************)
(* C2: permit conservation: the free permits, the permit owned by the      *)
(* accept loop and the permits owned by the live tasks add up to           *)
(* max_connections; a task owns a permit exactly while it is live, and     *)
(* the end of a task or a failed accept gives one permit back.             *)
(***************************************************************************)
Held == {i \in TaskIds : tasks[i].permit}

C2_PermitConservation ==
    /\ [](semaphore + (IF permit THEN 1 ELSE 0) + Cardinality(Live) = max_connections)
    /\ [](Held = Live)
    /\ [](semaphore \in 0..max_connections)
    /\ [][(\E i \in TaskIds : tasks[i].st \in LiveStates /\ tasks'[i].st = "ended")
            => semaphore' = semaphore + 1]_vars
    /\ [][(loopPc = "accept" /\ loopPc' = "acquire" /\ accepted' = accepted)
            => semaphore' = semaphore + 1]_vars

C2_Witness ==
    /\ acceptErrors = 1
    /\ \E i \in TaskIds : tasks[i].st = "ended" /\ tasks[i].result = "Ok"
    /\ \E i \in TaskIds : tasks[i].st = "ended" /\ tasks[i].result = "TimeoutError"
    /\ \E i \in TaskIds : tasks[i].st \in LiveStates
    /\ semaphore = max_connections - 1

(***************************************************************************)
(* utils.rs, version.rs, method.rs, request.rs: the header block on the    *)
(* wire and its parsing.                                                   *)
(***************************************************************************)
CR == "\r"

LF == "\n"

SP == " "

COLON == ":"

\* Option<usize>
Nothing == <<>>

Some(n) == <<n>>

\* find_headers_end: the offset just after the first \r\n\r\n, or None.
RECURSIVE Position(_, _)
Position(buf, i) ==
    IF i + 3 > Len(buf) THEN Nothing
    ELSE IF SubSeq(buf, i, i + 3) = <<CR, LF, CR, LF>> THEN Some(i - 1)
    ELSE Position(buf, i + 1)

\* windows(4).rposition(..): the last window instead of the first.
FindHeadersEnd_Last(buf) ==
    LET hits == {i \in 1..(Len(buf) - 3) :
                    SubSeq(buf, i, i + 3) = <<CR, LF, CR, LF>>}
    IN  IF hits = {} THEN Nothing
        ELSE Some((CHOOSE i \in hits : \A j \in hits : i >= j) + 3)

\* buffer.windows(4).position(|w| w == b"\r\n\r\n").map(|pos| pos + 4);
\* the window of index pos (from 0) is buf[pos + 1 .. pos + 4] here.
FindHeadersEnd(buf) ==
    LET pos == Position(buf, 1)
    IN  IF pos = Nothing THEN Nothing ELSE Some(pos[1] + 4)

\* impl From<&str> for HttpMethod
MethodFrom(token) ==
    IF token = <<"GET">> THEN "Get"
    ELSE IF token = <<"POST">> THEN "Post"
    ELSE "NoSupport"

\* impl From<&str> for HttpVersion
VersionFrom(token) ==
    IF token = <<"HTTP/1.0">> THEN "V1_0"
    ELSE IF token = <<"HTTP/1.1">> THEN "V1_1"
    ELSE "NoSupport"

\* Split a sequence at every atom of seps, empty pieces included.
RECURSIVE SplitOn(_, _, _, _)
SplitOn(s, seps, acc, cur) ==
    IF s = <<>> THEN Append(acc, cur)
    ELSE IF Head(s) \in seps THEN SplitOn(Tail(s), seps, Append(acc, cur), <<>>)
    ELSE SplitOn(Tail(s), seps, acc, Append(cur, Head(s)))

StripCR(line) ==
    IF line # <<>> /\ line[Len(line)] = CR THEN SubSeq(line, 1, Len(line) - 1) ELSE line

\* str::lines: the pieces ended by \n (or by the end of the text), each
\* without its line ending; no empty last line after a final \n.
Lines(s) ==
    LET pieces == SplitOn(s, {LF}, <<>>, <<>>)
        n      == Len(pieces)
        kept   == IF pieces[n] = <<>> THEN SubSeq(pieces, 1, n - 1) ELSE pieces
    IN  [i \in 1..Len(kept) |-> IF i < n THEN StripCR(kept[i]) ELSE kept[i]]

\* str::split_whitespace: the maximal runs of atoms that are not whitespace.
SplitWhitespace(line) == NonEmpty(SplitOn(line, {SP, CR}, <<>>, <<>>))

\* str::trim
RECURSIVE TrimLeft(_)
TrimLeft(s) ==
    IF s # <<>> /\ Head(s) \in {SP, CR} THEN TrimLeft(Tail(s)) ELSE s

RECURSIVE TrimRight(_)
TrimRight(s) ==
    IF s # <<>> /\ s[Len(s)] \in {SP, CR}
    THEN TrimRight(SubSeq(s, 1, Len(s) - 1)) ELSE s

Trim(s) == TrimRight(TrimLeft(s))

\* The loop over lines[1..] of HttpRequest::from: stop at the first empty
\* line, insert the lines that split on ':' into exactly two parts.
RECURSIVE ParseHeaderLines(_, _)
ParseHeaderLines(lines, headers) ==
    IF lines = <<>> \/ Head(lines) = <<>> THEN headers
    ELSE LET parts == SplitOn(Head(lines), {COLON}, <<>>, <<>>) IN
         ParseHeaderLines(Tail(lines),
            IF Len(parts) = 2
            THEN (Trim(parts[1]) :> Trim(parts[2])) @@ headers
            ELSE headers)

\* A byte that is not valid UTF-8 where it stands (0xFF), and the character
\* U+FFFD that String::from_utf8_lossy puts in its place.
InvalidByte == "xFF"

Replacement == "U+FFFD"

FromUtf8Lossy(bytes) ==
    [i \in 1..Len(bytes) |-> IF bytes[i] = InvalidByte THEN Replacement ELSE bytes[i]]

\* impl From<&str> for HttpRequest (method, uri, version and headers)
ParseRequest(value) ==
    LET lines == Lines(value)
        parts == IF Len(lines) >= 1 THEN SplitWhitespace(lines[1]) ELSE <<>>
        ok    == Len(parts) = 3
    IN  [method  |-> IF ok THEN MethodFrom(parts[1]) ELSE "NoSupport",
         path    |-> IF ok THEN parts[2] ELSE <<>>,
         version |-> IF ok THEN VersionFrom(parts[3]) ELSE "V1_1",
         headers |-> IF Len(lines) >= 2
                     THEN ParseHeaderLines(Tail(lines), <<>>)
                     ELSE <<>>]

\* HttpHeaders::get
HeaderGet(headers, k) == IF k \in DOMAIN headers THEN headers[k] ELSE None

\* u8::to_ascii_lowercase on the atoms that have upper-case letters
Lower(a) ==
    IF a = "Close" THEN "close"
    ELSE IF a = "Keep-Alive" THEN "keep-alive"
    ELSE a

\* str::eq_ignore_ascii_case
EqIgnoreAsciiCase(v, word) ==
    /\ v # None
    /\ Len(v) = 1
    /\ Lower(v[1]) = word

\* connect.rs: "check if the request is need keep-alive"
KeepAliveDecision(req, keep_alive_config) ==
    LET h == HeaderGet(req.headers, <<"Connection">>)
        byVersion == IF req.version = "V1_1"
                     THEN ~EqIgnoreAsciiCase(h, "close")
                     ELSE EqIgnoreAsciiCase(h, "keep-alive")
    IN  IF ~keep_alive_config THEN FALSE ELSE byVersion

(***************************************************************************)
(* connect.rs: one connection running HttpConnection::process against a    *)
(* peer that sends requests, stays silent or closes.                       *)
(***************************************************************************)
MaxRequests == 2

BufferSizes == {8, 10, 16}

MaxBufferSize == 16

\* A request as the peer writes it.
RequestWire(method, path, version, connection) ==
    <<method, SP>> \o path \o <<SP, version, CR, LF>>
    \o (IF connection = None THEN <<>>
        ELSE <<"Connection", COLON, SP, connection, CR, LF>>)
    \o <<CR, LF>>

WirePaths == { <<"/", "a">>, <<"/", "z">> }

Messages ==
    { RequestWire("GET", p, v, c) :
        p \in WirePaths,
        v \in {"HTTP/1.1", "HTTP/1.0"},
        c \in {None, "close", "Keep-Alive"} }
    \cup { RequestWire("PUT", <<"/", "a">>, "HTTP/1.1", None) }
    \cup { <<"GET", SP, "/", "a">> }
    \cup { <<"GET", SP, "/", "a", CR, LF, CR, LF>> }
    \cup { <<"GET", SP, "/", "a", SP, "HTTP/1.1", CR, LF,
             "connection", COLON, SP, "close", CR, LF, CR, LF>> }
    \cup { <<"GET", SP, "/", "a", SP, "HTTP/1.0", CR, LF,
             "CONNECTION", COLON, SP, "Keep-Alive", CR, LF, CR, LF>> }
    \cup { <<"GET", SP, "/", "a", SP, "HTTP/1.1", CR, LF, InvalidByte, CR, LF, CR, LF>> }

\* The router the connection is given: GET /a is routed to h1.
ServingTree == RouterAdd(EmptyTree, "Get", <<"/", "a">>, "h1").tree

NoRequest == [method |-> "NoSupport", path |-> <<>>, version |-> "V1_1",
              headers |-> <<>>]


Min(a, b) == IF a < b THEN a ELSE b

\* The peer writes a request.
PeerSend(msg) ==
    /\ ~peer_closed
    /\ sent < MaxRequests
    /\ pending' = pending \o msg
    /\ sent' = sent + 1
    /\ UNCHANGED <<buffer_size, keep_alive, c_state, buffer, request,
                   connection_keep_alive, handler, result, written, requests,
                   reading, failure, peer_closed, tree>>
    /\ UNCHANGED invoked
    /\ UNCHANGED <<serverVars, routerHistory, libVars>>

\* The peer closes its end.
PeerClose ==
    /\ ~peer_closed
    /\ peer_closed' = TRUE
    /\ UNCHANGED <<buffer_size, keep_alive, c_state, buffer, request,
                   connection_keep_alive, handler, result, written, requests,
                   reading, failure, pending, sent, tree>>
    /\ UNCHANGED invoked
    /\ UNCHANGED <<serverVars, routerHistory, libVars>>

\* process() returns: the connection is closed.
Return(res) ==
    /\ c_state' = "Closed"
    /\ result' = res

\* A read loop that tests the size of the buffer before it looks for the
\* terminator.
AfterRead_SizeFirst(buf) ==
    IF Len(buf) >= buffer_size THEN "too big"
    ELSE IF FindHeadersEnd(buf) # Nothing THEN "break"
    ELSE "again"

\* reader.read(..) returns Ok(n), n > 0: the arm Ok(Ok(n)) of the read loop.
AfterRead(buf) ==
    IF FindHeadersEnd(buf) # Nothing THEN "break"
    ELSE IF Len(buf) >= buffer_size THEN "too big"
    ELSE "again"

ReadSome(n) ==
    /\ c_state = "ReadingHeaders"
    /\ n \in 1..Min(Len(pending), buffer_size - Len(buffer))
    /\ LET buf == buffer \o SubSeq(pending, 1, n)
           then == AfterRead(buf)
       IN  /\ buffer' = buf
           /\ pending' = SubSeq(pending, n + 1, Len(pending))
           /\ reading' = requests + 1
           /\ CASE then = "break" ->
                    /\ c_state' = "Dispatching"
                    /\ requests' = requests + 1
                    /\ UNCHANGED <<result, failure>>
                [] then = "too big" ->
                    /\ Return("ProtocolError")
                    /\ failure' = "oversized"
                    /\ UNCHANGED requests
                [] then = "again" ->
                    UNCHANGED <<c_state, result, failure, requests>>
    /\ UNCHANGED <<buffer_size, keep_alive, request, connection_keep_alive,
                   handler, written, sent, peer_closed, tree>>
    /\ UNCHANGED invoked
    /\ UNCHANGED <<serverVars, routerHistory, libVars>>

\* A 0-byte read that is reported as an I/O error.
ReadEof_IsError ==
    /\ c_state = "ReadingHeaders"
    /\ pending = <<>>
    /\ peer_closed
    /\ reading' = requests + 1
    /\ Return("IOError")
    /\ UNCHANGED <<buffer_size, keep_alive, buffer, request,
                   connection_keep_alive, handler, written, requests, failure,
                   pending, sent, peer_closed, tree>>
    /\ UNCHANGED invoked
    /\ UNCHANGED <<serverVars, routerHistory, libVars>>

\* reader.read(..) returns Ok(0): the peer has closed.
ReadEof ==
    /\ c_state = "ReadingHeaders"
    /\ pending = <<>>
    /\ peer_closed
    /\ reading' = requests + 1
    /\ Return("Ok")
    /\ UNCHANGED <<buffer_size, keep_alive, buffer, request,
                   connection_keep_alive, handler, written, requests, failure,
                   pending, sent, peer_closed, tree>>
    /\ UNCHANGED invoked
    /\ UNCHANGED <<serverVars, routerHistory, libVars>>

\* A read timeout after which the read loop tries again.
ReadTimeout_Retries ==
    /\ c_state = "ReadingHeaders"
    /\ reading' = requests + 1
    /\ failure' = "timeout"
    /\ UNCHANGED <<buffer_size, keep_alive, c_state, result, buffer, request,
                   connection_keep_alive, handler, written, requests,
                   pending, sent, peer_closed, tree>>
    /\ UNCHANGED invoked
    /\ UNCHANGED <<serverVars, routerHistory, libVars>>

\* The timeout of the read fires: nothing came from the peer in time.
ReadTimeout ==
    /\ c_state = "ReadingHeaders"
    /\ reading' = requests + 1
    /\ Return("TimeoutError")
    /\ failure' = "timeout"
    /\ UNCHANGED <<buffer_size, keep_alive, buffer, request,
                   connection_keep_alive, handler, written, requests,
                   pending, sent, peer_closed, tree>>
    /\ UNCHANGED invoked
    /\ UNCHANGED <<serverVars, routerHistory, libVars>>

\* reader.read(..) returns Err(e).
ReadError ==
    /\ c_state = "ReadingHeaders"
    /\ reading' = requests + 1
    /\ Return("IOError")
    /\ failure' = "read error"
    /\ UNCHANGED <<buffer_size, keep_alive, buffer, request,
                   connection_keep_alive, handler, written, requests,
                   pending, sent, peer_closed, tree>>
    /\ UNCHANGED invoked
    /\ UNCHANGED <<serverVars, routerHistory, libVars>>

\* A match on the handler that calls it twice.
Invoke_Twice(found) ==
    IF found = None THEN invoked
    ELSE invoked \o << [req |-> requests, handler |-> found],
                       [req |-> requests, handler |-> found] >>

\* match handler { Some(h) => h(request).await, None => .. }: the handler the
\* router returned is called with the request.
Invoke(found) ==
    IF found = None THEN invoked
    ELSE Append(invoked, [req |-> requests, handler |-> found])

\* A dispatch that goes on to the next request without sending a response.
Dispatch_SkipsWrite ==
    /\ c_state = "Dispatching"
    /\ LET req  == ParseRequest(FromUtf8Lossy(buffer))
           find == RouterFind(tree, req.path, req.method)
       IN  /\ request' = req
           /\ connection_keep_alive' = KeepAliveDecision(req, keep_alive)
           /\ handler' = find.result
           /\ tree' = find.tree
           /\ invoked' = Invoke(find.result)
    /\ c_state' = "ReadingHeaders"
    /\ buffer' = <<>>
    /\ UNCHANGED <<buffer_size, keep_alive, result, written, requests,
                   reading, failure, pending, sent, peer_closed>>
    /\ UNCHANGED <<serverVars, routerHistory, libVars>>

\* The headers are parsed, keep-alive is decided, the router is asked and the
\* handler it returned, if any, is called.
Dispatch ==
    /\ c_state = "Dispatching"
    /\ LET req  == ParseRequest(FromUtf8Lossy(buffer))
           find == RouterFind(tree, req.path, req.method)
       IN  /\ request' = req
           /\ connection_keep_alive' = KeepAliveDecision(req, keep_alive)
           /\ handler' = find.result
           /\ tree' = find.tree
           /\ invoked' = Invoke(find.result)
    /\ c_state' = "Writing"
    /\ UNCHANGED <<buffer_size, keep_alive, buffer, result, written, requests,
                   reading, failure, pending, sent, peer_closed>>
    /\ UNCHANGED <<serverVars, routerHistory, libVars>>

\* The response that is sent: the handler's with the Connection header set,
\* or the 404 built when no handler was found.
Response(complete) ==
    IF handler # None
    THEN [req |-> requests, status |-> 200, handler |-> handler,
          connection |-> IF connection_keep_alive /\ keep_alive
                         THEN "keep-alive" ELSE "close",
          len |-> Len(buffer), complete |-> complete]
    ELSE [req |-> requests, status |-> 404, handler |-> None,
          connection |-> None, len |-> Len(buffer), complete |-> complete]

\* After response.send(..) returned Ok.
AfterSend ==
    IF handler = None THEN "return"
    ELSE IF ~connection_keep_alive THEN "break"
    ELSE "loop"

\* response.send(..) returns Ok.
WriteOk ==
    /\ c_state = "Writing"
    /\ written' = Append(written, Response(TRUE))
    /\ IF AfterSend = "loop"
       THEN /\ c_state' = "ReadingHeaders"
            /\ buffer' = <<>>
            /\ UNCHANGED result
       ELSE /\ Return("Ok")
            /\ UNCHANGED buffer
    /\ UNCHANGED <<buffer_size, keep_alive, request, connection_keep_alive,
                   handler, requests, reading, failure, pending, sent,
                   peer_closed, tree>>
    /\ UNCHANGED invoked
    /\ UNCHANGED <<serverVars, routerHistory, libVars>>

\* response.send(..) returns Err(e); part
\* of the response may be on the wire.
WriteErr ==
    /\ c_state = "Writing"
    /\ written' = Append(written, Response(FALSE))
    /\ Return("IOError")
    /\ failure' = "write error"
    /\ UNCHANGED <<buffer_size, keep_alive, buffer, request,
                   connection_keep_alive, handler, requests, reading,
                   pending, sent, peer_closed, tree>>
    /\ UNCHANGED invoked
    /\ UNCHANGED <<serverVars, routerHistory, libVars>>

ConnNext ==
    \/ \E msg \in Messages : PeerSend(msg)
    \/ PeerClose
    \/ \E n \in 1..MaxBufferSize : ReadSome(n)
    \/ ReadEof
    \/ ReadTimeout
    \/ ReadError
    \/ Dispatch
    \/ WriteOk
    \/ WriteErr

(***************************************************************************)
(* router.rs under concurrency: tasks call add and find_handler on clones  *)
(* of one router, which share the root.  A node is an entry of heap; its   *)
(* child map gives the index of the child for a segment.  A step of a task *)
(* is the code it runs while it holds one lock guard.                      *)
(***************************************************************************)
NumProcs == 2

ProcIds == 1..NumProcs

ConcPaths == { <<"/", "a">>, <<"/", "a", "/", "b">>, <<"/", "a", "/", "c">> }

ConcMethods == {"Get"}

\* RouteNode::with_name on the heap
HeapNode == [children |-> <<>>, handlers |-> NoHandlers]

IdleProc == [pc |-> "idle", op |-> None, method |-> None, path |-> <<>>,
             hfn |-> None, segments |-> <<>>, current |-> 1, result |-> None,
             locks |-> {}]

\* A call that is at one of its statements.
InCall(p) == procs[p].pc \in {"check", "insert", "get", "handlers"}

\* add on a segment that starts with ':' or is "*": todo!() before any lock.
Todo(p) ==
    /\ procs[p].pc = "check"
    /\ procs[p].op = "add"
    /\ LET segment == Head(procs[p].segments)
       IN  Head(segment) = ":" \/ segment = <<"*">>

\* The guard the statement at pc awaits: .read() or .write() on the
\* static_routes or the handlers of the current node.
Wanted(p) ==
    [node |-> procs[p].current,
     map  |-> IF procs[p].pc = "handlers" THEN "handlers" ELSE "static_routes",
     mode |-> IF \/ procs[p].pc = "insert"
                 \/ procs[p].pc = "handlers" /\ procs[p].op = "add"
              THEN "write" ELSE "read"]

\* tokio::sync::RwLock: any number of read guards or one write guard; a
\* task's own guards count like any other's.
CanAcquire(p) ==
    \A q \in ProcIds : \A l \in procs[q].locks :
        (l.node = Wanted(p).node /\ l.map = Wanted(p).map) =>
            (l.mode = "read" /\ Wanted(p).mode = "read")

\* Guards that live on after their statement.
GuardsAfter_Kept(held) == held

\* The guards a call holds when a statement is over: each guard is a
\* temporary of its statement or of the `if` condition, or a local of the
\* loop body (route in find_handler), and is dropped with it.
GuardsAfter(held) == {}

\* .read().await or .write().await returns the guard.
ConcAcquire(p) ==
    /\ InCall(p)
    /\ ~Todo(p)
    /\ Wanted(p) \notin procs[p].locks
    /\ CanAcquire(p)
    /\ procs' = [procs EXCEPT ![p].locks = @ \cup {Wanted(p)}]
    /\ UNCHANGED heap
    /\ UNCHANGED <<routerVars, serverVars, connVars, scan, body, respVars, stream>>

\* Where a call goes after a segment is done or skipped.
NextPc(segments) == IF segments = <<>> THEN "handlers" ELSE "check"

\* A task calls router.add(method, path, hfn) or
\* router.find_handler(path, method): segments and current are set up.
ConcCall(p, op, method, path, hfn) ==
    /\ procs[p].pc = "idle"
    /\ procs' = [procs EXCEPT ![p] =
                    [pc |-> NextPc(Route(path)), op |-> op, method |-> method,
                     path |-> path, hfn |-> hfn, segments |-> Route(path),
                     current |-> 1, result |-> None, locks |-> {}]]
    /\ UNCHANGED heap
    /\ UNCHANGED <<routerVars, serverVars, connVars, scan, body, respVars, stream>>

\* !node_ref.static_routes.read().await.contains_key(segment), and in add the
\* tests for `:` and `*` before it.
ConcCheck(p) ==
    /\ procs[p].pc = "check"
    /\ Todo(p) \/ Wanted(p) \in procs[p].locks
    /\ LET segment == Head(procs[p].segments)
           todo    == procs[p].op = "add"
                      /\ (Head(segment) = ":" \/ segment = <<"*">>)
           absent  == segment \notin DOMAIN heap[procs[p].current].children
       IN  procs' = [procs EXCEPT ![p].pc =
                        IF todo THEN "panicked"
                        ELSE IF absent THEN "insert" ELSE "get",
                                  ![p].locks = GuardsAfter(@)]
    /\ UNCHANGED heap
    /\ UNCHANGED <<routerVars, serverVars, connVars, scan, body, respVars, stream>>

\* node_ref.static_routes.write().await.insert(segment, new_node)
ConcInsert(p) ==
    /\ procs[p].pc = "insert"
    /\ Wanted(p) \in procs[p].locks
    /\ LET segment == Head(procs[p].segments)
           cur     == procs[p].current
           new     == Len(heap) + 1
       IN  heap' = Append([heap EXCEPT ![cur].children =
                              (segment :> new) @@ heap[cur].children],
                          HeapNode)
    /\ procs' = [procs EXCEPT ![p].pc = "get", ![p].locks = GuardsAfter(@)]
    /\ UNCHANGED <<routerVars, serverVars, connVars, scan, body, respVars, stream>>

\* current = node_ref.static_routes.read().await.get(segment)
ConcGet(p) ==
    /\ procs[p].pc = "get"
    /\ Wanted(p) \in procs[p].locks
    /\ LET segment == Head(procs[p].segments)
           rest    == Tail(procs[p].segments)
       IN  procs' = [procs EXCEPT
                        ![p].current = heap[procs[p].current].children[segment],
                        ![p].segments = rest,
                        ![p].pc = NextPc(rest),
                        ![p].locks = GuardsAfter(@)]
    /\ UNCHANGED heap
    /\ UNCHANGED <<routerVars, serverVars, connVars, scan, body, respVars, stream>>

\* add: current.handlers.write().await.insert(method, handler);
\* find_handler: current.handlers.read().await.get(&method)
ConcHandlers(p) ==
    /\ procs[p].pc = "handlers"
    /\ Wanted(p) \in procs[p].locks
    /\ LET cur == procs[p].current IN
       IF procs[p].op = "add"
       THEN /\ heap' = [heap EXCEPT ![cur].handlers[procs[p].method] = procs[p].hfn]
            /\ procs' = [procs EXCEPT ![p].pc = "done", ![p].result = "self",
                                      ![p].locks = GuardsAfter(@)]
       ELSE /\ procs' = [procs EXCEPT ![p].pc = "done",
                           ![p].result = heap[cur].handlers[procs[p].method],
                           ![p].locks = GuardsAfter(@)]
            /\ UNCHANGED heap
    /\ UNCHANGED <<routerVars, serverVars, connVars, scan, body, respVars, stream>>

ConcNext ==
    \/ \E p \in ProcIds, m \in ConcMethods, q \in ConcPaths, h \in HandlerFn :
          ConcCall(p, "add", m, q, h)
    \/ \E p \in ProcIds, m \in ConcMethods, q \in ConcPaths :
          ConcCall(p, "find", m, q, None)
    \/ \E p \in ProcIds : ConcAcquire(p)
    \/ \E p \in ProcIds : ConcCheck(p)
    \/ \E p \in ProcIds : ConcInsert(p)
    \/ \E p \in ProcIds : ConcGet(p)
    \/ \E p \in ProcIds : ConcHandlers(p)

\* What a find_handler that runs alone returns on the heap: the handler at
\* the node the segments lead to (a node it has to create has no handler).
RECURSIVE HeapLookup(_, _, _, _)
HeapLookup(hp, node, segments, method) ==
    IF segments = <<>> THEN hp[node].handlers[method]
    ELSE IF Head(segments) \notin DOMAIN hp[node].children THEN None
    ELSE HeapLookup(hp, hp[node].children[Head(segments)], Tail(segments), method)

(***************************************************************************)
(* utils.rs: find_headers_end applied to any buffer of at most MaxScanLen  *)
(* bytes.                                                                  *)
(***************************************************************************)
MaxScanLen == 6

ScanBytes == {CR, LF, "x"}

ScanBuffers == UNION { [1..n -> ScanBytes] : n \in 0..MaxScanLen }

IdleScan == [buffer |-> <<>>, done |-> FALSE, result |-> Nothing]

\* let end = find_headers_end(&buffer);
FindEnd ==
    /\ ~scan.done
    /\ scan' = [scan EXCEPT !.done = TRUE, !.result = FindHeadersEnd(scan.buffer)]
    /\ UNCHANGED <<routerVars, serverVars, connVars, concVars, body, respVars, stream>>

UtilsNext == FindEnd

(***************************************************************************)
(* body.rs: HttpBody.  A body is a record of its variant, its data (the    *)
(* bytes of InMemory, or the bytes the reader of Streaming has not given   *)
(* out yet) and the buffer_size of Streaming.  What read_next returns is a *)
(* record: Some(chunk), None or Err.                                        *)
(***************************************************************************)
MaxData == 3

MaxChunk == 4

MaxReads == 5

BodyBytes == {"x", "y"}

BodyData == UNION { [1..n -> BodyBytes] : n \in 0..MaxData }

ChunkSizes == 1..MaxChunk

\* HttpBody::new() / HttpBody::Empty
EmptyBody == [kind |-> "Empty", data |-> <<>>, buffer_size |-> 0, read_buf |-> <<>>]

InMemory(data) ==
    [kind |-> "InMemory", data |-> data, buffer_size |-> 0, read_buf |-> <<>>]

\* HttpBody::from_data(data)
FromData(data) == IF data = <<>> THEN EmptyBody ELSE InMemory(data)

\* impl From<&str> for HttpBody
BodyFromStr(value) == InMemory(value)

\* HttpBody::from_reader(reader, buffer_size), reader over the bytes of source;
\* data is what the reader has not given out yet.
FromReader(source, size) ==
    [kind |-> "Streaming", data |-> source, buffer_size |-> size, read_buf |-> <<>>]

\* read_buf.clear(); read_buf.resize(buffer_size, 0)
Zeroed(size) == [i \in 1..size |-> "nul"]

RetNone == [tag |-> "None", chunk |-> <<>>]

RetSome(chunk) == [tag |-> "Some", chunk |-> chunk]

RetErr == [tag |-> "Err", chunk |-> <<>>]

\* The InMemory arm without data.clear().
ReadInMemory_KeepsData(b) ==
    IF b.data = <<>> THEN [body |-> b, ret |-> RetNone]
    ELSE [body |-> b, ret |-> RetSome(b.data)]

\* The InMemory arm of read_next.
ReadInMemory(b) ==
    IF b.data = <<>> THEN [body |-> b, ret |-> RetNone]
    ELSE [body |-> [b EXCEPT !.data = <<>>], ret |-> RetSome(b.data)]

\* What reader.read(read_buf) can return as Ok(n): 0 at the end of the
\* source or into a buffer of no bytes, else some bytes that fit the buffer.
ReadCounts(b) ==
    IF b.kind # "Streaming" \/ b.data = <<>> \/ b.buffer_size = 0 THEN {0}
    ELSE 1..Min(Len(b.data), b.buffer_size)

\* The Streaming arm without read_buf.truncate(n): the chunk is the whole
\* buffer, zeros after the n bytes read.
ReadStreaming_NoTruncate(b, n) ==
    IF n = 0 THEN [body |-> [b EXCEPT !.read_buf = Zeroed(b.buffer_size)],
                   ret  |-> RetNone]
    ELSE LET filled == SubSeq(b.data, 1, n) \o Zeroed(b.buffer_size - n)
         IN  [body |-> [b EXCEPT !.data = SubSeq(b.data, n + 1, Len(b.data)),
                                 !.read_buf = filled],
              ret  |-> RetSome(filled)]

\* The Streaming arm of read_next when read returns Ok(n): read_buf is
\* cleared and zero-filled, read into and cut to the n bytes read.
ReadStreaming(b, n) ==
    IF n = 0 THEN [body |-> [b EXCEPT !.read_buf = Zeroed(b.buffer_size)],
                   ret  |-> RetNone]
    ELSE [body |-> [b EXCEPT !.data = SubSeq(b.data, n + 1, Len(b.data)),
                             !.read_buf = SubSeq(b.data, 1, n)],
          ret  |-> RetSome(SubSeq(b.data, 1, n))]

\* HttpBody::read_next, n being what the reader's read returns
ReadNext(b, n) ==
    CASE b.kind = "InMemory"  -> ReadInMemory(b)
      [] b.kind = "Streaming" -> ReadStreaming(b, n)
      [] OTHER                -> [body |-> b, ret |-> RetNone]

\* HttpBody::is_streaming
IsStreaming(b) == b.kind = "Streaming"

\* content_length that gives Some(0) for what holds no bytes.
ContentLength_EmptyIsZero(b) ==
    IF b.kind = "InMemory" THEN Some(Len(b.data))
    ELSE IF b.kind = "Empty" THEN Some(0)
    ELSE Nothing

\* HttpBody::content_length
ContentLength(b) == IF b.kind = "InMemory" THEN Some(Len(b.data)) ELSE Nothing

\* The last call of content_length or is_streaming and what it returned.
NoQuery == [op |-> "none", length |-> Nothing, streaming |-> FALSE]

IdleBody == [value |-> EmptyBody, made |-> "new", source |-> <<>>,
             returned |-> <<>>, query |-> NoQuery]

\* The bodies a caller can construct.
Bodies ==
    {IdleBody}
    \cup { [value |-> FromData(d), made |-> "from_data", source |-> d,
            returned |-> <<>>, query |-> NoQuery] : d \in BodyData }
    \cup { [value |-> BodyFromStr(d), made |-> "from", source |-> d,
            returned |-> <<>>, query |-> NoQuery] : d \in BodyData }
    \cup { [value |-> FromReader(d, s), made |-> "from_reader", source |-> d,
            returned |-> <<>>, query |-> NoQuery] : d \in BodyData, s \in ChunkSizes }

\* body.read_next().await returns Ok(..)
BodyReadNext(n) ==
    /\ Len(body.returned) < MaxReads
    /\ n \in ReadCounts(body.value)
    /\ LET r == ReadNext(body.value, n)
       IN  body' = [body EXCEPT !.value = r.body,
                                !.returned = Append(@, r.ret)]
    /\ UNCHANGED <<routerVars, serverVars, connVars, concVars, scan, respVars, stream>>

\* body.read_next().await returns Err(e): the reader's read failed and gave
\* out no bytes.
BodyReadErr ==
    /\ Len(body.returned) < MaxReads
    /\ body.value.kind = "Streaming"
    /\ \A i \in DOMAIN body.returned : body.returned[i].tag # "Err"
    /\ body' = [body EXCEPT !.returned = Append(@, RetErr)]
    /\ UNCHANGED <<routerVars, serverVars, connVars, concVars, scan, respVars, stream>>

\* body.content_length(), on &self
BodyContentLength ==
    /\ body' = [body EXCEPT !.query = [op |-> "content_length",
                                       length |-> ContentLength(body.value),
                                       streaming |-> FALSE]]
    /\ UNCHANGED <<routerVars, serverVars, connVars, concVars, scan, respVars, stream>>

\* body.is_streaming(), on &self
BodyIsStreaming ==
    /\ body' = [body EXCEPT !.query = [op |-> "is_streaming",
                                       length |-> Nothing,
                                       streaming |-> IsStreaming(body.value)]]
    /\ UNCHANGED <<routerVars, serverVars, connVars, concVars, scan, respVars, stream>>

BodyNext ==
    \/ \E n \in 0..MaxChunk : BodyReadNext(n)
    \/ BodyReadErr
    \/ BodyContentLength
    \/ BodyIsStreaming

(***************************************************************************)
(* response.rs: HttpResponse.  The bytes written are atoms as in the       *)
(* requests above; numbers are written digit by digit.                     *)
(***************************************************************************)
MaxBuild == 3

Digits == <<"0", "1", "2", "3", "4", "5", "6", "7", "8", "9",
            "A", "B", "C", "D", "E", "F">>

\* format!("{n}") of an unsigned number
RECURSIVE Dec(_)
Dec(n) == IF n < 10 THEN <<Digits[n + 1]>>
          ELSE Append(Dec(n \div 10), Digits[(n % 10) + 1])

\* format!("{:X}", n)
RECURSIVE Hex(_)
Hex(n) == IF n < 16 THEN <<Digits[n + 1]>>
          ELSE Append(Hex(n \div 16), Digits[(n % 16) + 1])

\* HttpVersion::as_string
VersionAsString(version) ==
    CASE version = "V1_0" -> "HTTP/1.0"
      [] version = "V1_1" -> "HTTP/1.1"
      [] OTHER            -> "NoSupport"

NoHeaders == <<>>

\* HttpResponse::new(status_code, status_text)
NewResponse(code, text) ==
    [status_code |-> code, status_text |-> text, headers |-> NoHeaders,
     body |-> EmptyBody, version |-> "V1_1", chunked_encoding |-> FALSE]

StatusLines == { <<200, <<"OK">>>>, <<204, <<"No", SP, "Content">>>>,
                 <<404, <<"Not", SP, "Found">>>> }

\* The headers a handler inserts.
HandlerHeaders == { <<"Content-Type", <<"text/plain">>>>,
                    <<"Content-Length", <<"5">>>>,
                    <<"X-Note", <<"a", COLON, SP, "b">>>> }

HeaderKeys == {"Content-Type", "Content-Length", "X-Note", "Transfer-Encoding"}

\* The orders in which headers.iter() can give out at most n keys.
HeaderOrders ==
    UNION { {o \in [1..n -> HeaderKeys] : \A i, j \in 1..n : o[i] = o[j] => i = j}
            : n \in 0..Cardinality(HeaderKeys) }

Bytes(n) == [i \in 1..n |-> "x"]

RespData == { <<>>, <<"x", "y">>, <<CR, LF, CR, LF>>, Bytes(11), Bytes(17) }

RespChunkSizes == {4, 16}

RespBodies ==
    {EmptyBody}
    \cup { FromData(d) : d \in RespData }
    \cup { BodyFromStr(d) : d \in RespData }
    \cup { FromReader(d, s) : d \in RespData, s \in RespChunkSizes }

\* What the reader's reads return first (after these, all that fits).
ReadPlans == { <<>>, <<1>>, <<11>> }

IdleResponse == NewResponse(200, <<"OK">>)

IdleSendLog == [steps |-> 0, sent |-> FALSE, result |-> None,
                pre |-> IdleResponse, chunks |-> <<>>]

\* with_body(body), add_body(body)
WithBody(b) ==
    /\ ~sendLog.sent
    /\ sendLog.steps < MaxBuild
    /\ response' = [response EXCEPT !.body = b]
    /\ sendLog' = [sendLog EXCEPT !.steps = @ + 1]
    /\ UNCHANGED writer
    /\ UNCHANGED <<routerVars, serverVars, connVars, concVars, scan, body, stream>>

\* with_streaming_body(reader, buffer_size), reader over the bytes of source
WithStreamingBody(source, size) ==
    /\ ~sendLog.sent
    /\ sendLog.steps < MaxBuild
    /\ response' = [response EXCEPT
                      !.body = FromReader(source, size),
                      !.chunked_encoding = TRUE,
                      !.headers = ("Transfer-Encoding" :> <<"chunked">>) @@ @]
    /\ sendLog' = [sendLog EXCEPT !.steps = @ + 1]
    /\ UNCHANGED writer
    /\ UNCHANGED <<routerVars, serverVars, connVars, concVars, scan, body, stream>>

\* headers_mut().insert(k, v)
InsertHeader(k, v) ==
    /\ ~sendLog.sent
    /\ sendLog.steps < MaxBuild
    /\ response' = [response EXCEPT !.headers = (k :> v) @@ @]
    /\ sendLog' = [sendLog EXCEPT !.steps = @ + 1]
    /\ UNCHANGED writer
    /\ UNCHANGED <<routerVars, serverVars, connVars, concVars, scan, body, stream>>

\* format!("{} {} {}\r\n", version.as_string(), status_code, status_text)
StatusLine(r) ==
    <<VersionAsString(r.version), SP>> \o Dec(r.status_code) \o <<SP>>
        \o r.status_text \o <<CR, LF>>

\* format!("{key}: {value}\r\n")
HeaderLine(key, value) == <<key, COLON, SP>> \o value \o <<CR, LF>>

RECURSIVE HeaderLines(_, _)
HeaderLines(headers, order) ==
    IF order = <<>> THEN <<>>
    ELSE HeaderLine(Head(order), headers[Head(order)])
            \o HeaderLines(headers, Tail(order))

\* write_headers that writes Content-Length whenever the length is known.
WriteHeaders_AlwaysLength(r, order) ==
    StatusLine(r)
    \o (IF ~r.chunked_encoding /\ ContentLength(r.body) # Nothing
        THEN HeaderLine("Content-Length", Dec(ContentLength(r.body)[1]))
        ELSE <<>>)
    \o HeaderLines(r.headers, order)
    \o <<CR, LF>>

\* HttpResponse::write_headers, headers.iter() giving the keys in order
WriteHeaders(r, order) ==
    StatusLine(r)
    \o (IF /\ ~r.chunked_encoding
           /\ ContentLength(r.body) # Nothing
           /\ "Content-Length" \notin DOMAIN r.headers
        THEN HeaderLine("Content-Length", Dec(ContentLength(r.body)[1]))
        ELSE <<>>)
    \o HeaderLines(r.headers, order)
    \o <<CR, LF>>

\* while let Some(chunk) = self.body.read_next().await?: the body after the
\* loop and the chunks it gave out; plan is what the reader's reads return.
RECURSIVE Drain(_, _)
Drain(b, plan) ==
    LET most == IF b.kind = "Streaming" THEN Min(Len(b.data), b.buffer_size)
                ELSE 0
        n    == IF plan = <<>> THEN most ELSE Min(Head(plan), most)
        r    == ReadNext(b, n)
    IN  IF r.ret.tag = "None" THEN [body |-> r.body, chunks |-> <<>>]
        ELSE LET rest == Drain(r.body, IF plan = <<>> THEN <<>> ELSE Tail(plan))
             IN  [body |-> rest.body, chunks |-> <<r.ret.chunk>> \o rest.chunks]

\* writer.write_all(&chunk) for each chunk
RECURSIVE WriteAll(_)
WriteAll(chunks) ==
    IF chunks = <<>> THEN <<>>
    ELSE Head(chunks) \o WriteAll(Tail(chunks))

\* send_normal that writes no chunk.
SendNormal_NoBody(chunks) == <<>>

\* HttpResponse::send_normal
SendNormal(chunks) == WriteAll(chunks)

\* The loop of send_chunked
RECURSIVE ChunkFrames(_)
ChunkFrames(chunks) ==
    IF chunks = <<>> THEN <<>>
    ELSE (IF Head(chunks) # <<>>
          THEN Hex(Len(Head(chunks))) \o <<CR, LF>> \o Head(chunks) \o <<CR, LF>>
          ELSE <<>>)
         \o ChunkFrames(Tail(chunks))

\* send_chunked without the two writes after the loop.
SendChunked_NoTerminator(chunks) == ChunkFrames(chunks)

\* HttpResponse::send_chunked
SendChunked(chunks) == ChunkFrames(chunks) \o <<"0", CR, LF>> \o <<CR, LF>>

IsOrderOf(order, headers) ==
    /\ Len(order) = Cardinality(DOMAIN headers)
    /\ {order[i] : i \in DOMAIN order} = DOMAIN headers

\* response.send(&mut writer).await returns Ok(())
Send(order, plan) ==
    /\ ~sendLog.sent
    /\ IsOrderOf(order, response.headers)
    /\ response.body.kind # "Streaming" => plan = <<>>
    /\ LET d == Drain(response.body, plan)
       IN  /\ writer' = writer \o WriteHeaders(response, order)
                \o (IF response.chunked_encoding THEN SendChunked(d.chunks)
                    ELSE SendNormal(d.chunks))
           /\ response' = [response EXCEPT !.body = d.body]
           /\ sendLog' = [sendLog EXCEPT !.sent = TRUE, !.result = "Ok",
                                         !.pre = response, !.chunks = d.chunks]
    /\ UNCHANGED <<routerVars, serverVars, connVars, concVars, scan, body, stream>>

\* send returns Err(e): the first read_next of a streaming body fails, after
\* write_headers.
SendErr(order) ==
    /\ ~sendLog.sent
    /\ IsOrderOf(order, response.headers)
    /\ response.body.kind = "Streaming"
    /\ writer' = writer \o WriteHeaders(response, order)
    /\ sendLog' = [sendLog EXCEPT !.sent = TRUE, !.result = "Err",
                                  !.pre = response]
    /\ UNCHANGED response
    /\ UNCHANGED <<routerVars, serverVars, connVars, concVars, scan, body, stream>>

ResponseNext ==
    \/ \E b \in RespBodies : WithBody(b)
    \/ \E d \in RespData, s \in RespChunkSizes : WithStreamingBody(d, s)
    \/ \E h \in HandlerHeaders : InsertHeader(h[1], h[2])
    \/ \E order \in HeaderOrders, plan \in ReadPlans : Send(order, plan)
    \/ \E order \in HeaderOrders : SendErr(order)

(***************************************************************************)
(* HttpRequest::from_stream (request.rs): the header block is read from    *)
(* the stream and parsed, the body is made over what follows it.           *)
(***************************************************************************)

\* The bytes one read of the stream gives at most (the 1024-byte buffers of
\* from_stream and of the body it makes, scaled down).
MaxStreamRead == 3

\* str::splitn(2, ':'): the line cut at its first ':' only.
SplitN2(line) ==
    IF \E i \in DOMAIN line : line[i] = COLON
    THEN LET i == CHOOSE k \in DOMAIN line :
                    /\ line[k] = COLON
                    /\ \A j \in 1..(k - 1) : line[j] # COLON
         IN  <<SubSeq(line, 1, i - 1), SubSeq(line, i + 1, Len(line))>>
    ELSE <<line>>

\* The loop over lines.iter().skip(1) of parse_headers.
RECURSIVE StreamHeaderLines(_, _)
StreamHeaderLines(lines, headers) ==
    IF lines = <<>> \/ Head(lines) = <<>> THEN headers
    ELSE LET parts == SplitN2(Head(lines)) IN
         StreamHeaderLines(Tail(lines),
            IF Len(parts) = 2
            THEN (Trim(parts[1]) :> Trim(parts[2])) @@ headers
            ELSE headers)

\* HttpRequest::parse_headers
ParseHeaders(headers_str) ==
    LET lines == Lines(headers_str)
        parts == IF lines = <<>> THEN <<>> ELSE SplitWhitespace(lines[1])
    IN  IF lines = <<>> \/ Len(parts) # 3
        THEN [ok |-> FALSE, request |-> NoRequest]
        ELSE [ok |-> TRUE,
              request |-> [method  |-> MethodFrom(parts[1]),
                           path    |-> parts[2],
                           version |-> VersionFrom(parts[3]),
                           headers |-> StreamHeaderLines(Tail(lines), <<>>)]]

\* HttpHeaders::contains_key
ContainsKey(headers, k) == k \in DOMAIN headers

\* The body from_stream makes: Streaming over the rest of the stream with
\* the bytes read past the headers in read_buf, or Empty.
StreamBody(pre_read, rest, headers) ==
    IF \/ pre_read # <<>>
       \/ ContainsKey(headers, <<"Content-Length">>)
       \/ ContainsKey(headers, <<"Transfer-Encoding">>)
    THEN [kind |-> "Streaming", data |-> rest, buffer_size |-> MaxStreamRead,
          read_buf |-> pre_read]
    ELSE EmptyBody

\* The header blocks a peer sends.
StreamHead(request_line, header) ==
    request_line \o <<CR, LF>>
    \o (IF header = <<>> THEN <<>> ELSE header \o <<CR, LF>>)
    \o <<CR, LF>>

RequestLines == { <<"POST", SP, "/", "a", SP, "HTTP/1.1">>, <<"POST", SP, "/", "a">> }

StreamHeaders ==
    { <<>>,
      <<"Content-Length", COLON, SP, "2">>,
      <<"Transfer-Encoding", COLON, SP, "chunked">>,
      <<"X", COLON, SP, InvalidByte>>,
      <<"Host", COLON, SP, "example.com", COLON, "8080">>,
      <<"X", COLON, "1", CR, LF, "no-colon", CR, LF, SP, "X", SP, COLON, SP, "2", SP>> }

\* What follows the header block on the stream.
StreamTail == <<"x", "y", "y", "x">>

StreamWires ==
    { StreamHead(l, h) \o SubSeq(StreamTail, 1, n) :
        l \in RequestLines, h \in StreamHeaders, n \in 0..Len(StreamTail) }
    \cup { <<"POST", SP, "/", "a", SP, "HTTP/1.1", CR, LF>> }
    \cup { <<"POST", SP, "/", "a", SP, "HTTP/1.1", CR, LF>>
             \o [i \in 1..(MaxBufferSize + MaxStreamRead) |-> "x"] }

IdleStream == [wire |-> <<>>, rest |-> <<>>, buffer |-> <<>>, pc |-> "idle",
               result |-> None, request |-> NoRequest, pre_read |-> <<>>,
               body |-> EmptyBody, chunks |-> <<>>, from_str |-> NoRequest,
               converted |-> FALSE]

\* from_stream(stream) is called on a stream that will give the bytes of wire.
NewStream(wire) == [IdleStream EXCEPT !.wire = wire, !.rest = wire, !.pc = "headers"]

\* from_stream returns Err(e).
StreamFail(s, e) == [s EXCEPT !.pc = "failed", !.result = e]

\* from_stream after the loop: decode, parse, make the body.
BuildRequest(s, headers_end) ==
    LET block    == SubSeq(s.buffer, 1, headers_end)
        pre_read == SubSeq(s.buffer, headers_end + 1, Len(s.buffer))
        parsed   == ParseHeaders(block)
    IN  IF \E i \in DOMAIN block : block[i] = InvalidByte
        THEN StreamFail(s, "ProtocolError")
        ELSE IF ~parsed.ok THEN StreamFail(s, "ProtocolError")
        ELSE [s EXCEPT !.pc = "built", !.result = "Ok",
                       !.request = parsed.request,
                       !.pre_read = pre_read,
                       !.body = StreamBody(pre_read, s.rest, parsed.request.headers)]

\* stream.read(&mut buf) returns Ok(n), n > 0.
StreamRead(n) ==
    /\ stream.pc = "headers"
    /\ n \in 1..Min(Len(stream.rest), MaxStreamRead)
    /\ LET s   == [stream EXCEPT !.buffer = @ \o SubSeq(stream.rest, 1, n),
                                 !.rest = SubSeq(@, n + 1, Len(@))]
           end == FindHeadersEnd(s.buffer)
       IN  stream' = IF end = Nothing THEN s ELSE BuildRequest(s, end[1])
    /\ UNCHANGED <<routerVars, serverVars, connVars, concVars, scan, body, respVars>>

\* stream.read(&mut buf) returns Ok(0) before the terminator was seen.
StreamEof ==
    /\ stream.pc = "headers"
    /\ stream.rest = <<>>
    /\ stream' = StreamFail(stream, "ProtocolError")
    /\ UNCHANGED <<routerVars, serverVars, connVars, concVars, scan, body, respVars>>

\* stream.read(&mut buf) returns Err(e): `?`.
StreamReadErr ==
    /\ stream.pc = "headers"
    /\ stream' = StreamFail(stream, "IOError")
    /\ UNCHANGED <<routerVars, serverVars, connVars, concVars, scan, body, respVars>>

\* request.body.read_next().await returns Ok(..) on the request built.
StreamBodyRead(n) ==
    /\ stream.pc = "built"
    /\ Len(stream.chunks) < MaxReads
    /\ n \in ReadCounts(stream.body)
    /\ LET r == ReadNext(stream.body, n)
       IN  stream' = [stream EXCEPT !.body = r.body, !.chunks = Append(@, r.ret)]
    /\ UNCHANGED <<routerVars, serverVars, connVars, concVars, scan, body, respVars>>

\* HttpRequest::from(text) on the header block that from_stream parsed.
StreamFromStr ==
    /\ stream.pc = "built"
    /\ ~stream.converted
    /\ LET end == FindHeadersEnd(stream.buffer)
       IN  stream' = [stream EXCEPT
                        !.from_str = ParseRequest(SubSeq(stream.buffer, 1, end[1])),
                        !.converted = TRUE]
    /\ UNCHANGED <<routerVars, serverVars, connVars, concVars, scan, body, respVars>>

RequestNext ==
    \/ StreamFromStr
    \/ \E n \in 1..MaxStreamRead : StreamRead(n)
    \/ StreamEof
    \/ StreamReadErr
    \/ \E n \in 0..MaxStreamRead : StreamBodyRead(n)

(***************************************************************************)
(* The specifications.  Each one runs one part of the program and leaves   *)
(* the other parts in a state they can be in: a server that has accepted   *)
(* nothing, a connection that has read nothing, a router that was given    *)
(* the route GET /a.                                                       *)
(***************************************************************************)
NoTasks == [i \in TaskIds |-> [st |-> "unborn", permit |-> FALSE, served |-> 0,
                               result |-> None]]

\* HttpRouter::new(), a server with max_connections = 1 before run(), and a
\* connection as HttpConnection::new builds it.
RouterInit ==
    /\ tree = EmptyTree
    /\ panicked = FALSE
    /\ lastCall = NoCall
    /\ registered = <<>>
    /\ wildcards = {}
    /\ stream = IdleStream
    /\ sendLog = IdleSendLog
    /\ writer = <<>>
    /\ response = IdleResponse
    /\ ncalls = 0
    /\ max_connections = 1
    /\ semaphore = 1
    /\ loopPc = "acquire"
    /\ permit = FALSE
    /\ tasks = NoTasks
    /\ accepted = 0
    /\ acceptErrors = 0
    /\ run_result = None
    /\ buffer_size = MaxBufferSize
    /\ keep_alive = TRUE
    /\ c_state = "ReadingHeaders"
    /\ buffer = <<>>
    /\ request = NoRequest
    /\ connection_keep_alive = FALSE
    /\ handler = None
    /\ result = None
    /\ written = <<>>
    /\ requests = 0
    /\ reading = 0
    /\ failure = None
    /\ invoked = <<>>
    /\ pending = <<>>
    /\ sent = 0
    /\ peer_closed = FALSE
    /\ heap = <<HeapNode>>
    /\ procs = [p \in ProcIds |-> IdleProc]
    /\ scan = IdleScan
    /\ body = IdleBody

\* HttpServer::run after bind: Semaphore::new(max_connections), no task.
ServerInit ==
    /\ max_connections \in 1..MaxConnections
    /\ semaphore = max_connections
    /\ loopPc = "bind"
    /\ permit = FALSE
    /\ tasks = NoTasks
    /\ accepted = 0
    /\ acceptErrors = 0
    /\ run_result = None
    /\ tree = EmptyTree
    /\ panicked = FALSE
    /\ lastCall = NoCall
    /\ registered = <<>>
    /\ wildcards = {}
    /\ stream = IdleStream
    /\ sendLog = IdleSendLog
    /\ writer = <<>>
    /\ response = IdleResponse
    /\ ncalls = 0
    /\ buffer_size = MaxBufferSize
    /\ keep_alive = TRUE
    /\ c_state = "ReadingHeaders"
    /\ buffer = <<>>
    /\ request = NoRequest
    /\ connection_keep_alive = FALSE
    /\ handler = None
    /\ result = None
    /\ written = <<>>
    /\ requests = 0
    /\ reading = 0
    /\ failure = None
    /\ invoked = <<>>
    /\ pending = <<>>
    /\ sent = 0
    /\ peer_closed = FALSE
    /\ heap = <<HeapNode>>
    /\ procs = [p \in ProcIds |-> IdleProc]
    /\ scan = IdleScan
    /\ body = IdleBody

\* HttpConnection::new followed by the setters keep_alive and buffer_size,
\* given the router after add(Get, "/a", h1).
ConnInit ==
    /\ buffer_size \in BufferSizes
    /\ keep_alive \in BOOLEAN
    /\ c_state = "ReadingHeaders"
    /\ buffer = <<>>
    /\ request = NoRequest
    /\ connection_keep_alive = FALSE
    /\ handler = None
    /\ result = None
    /\ written = <<>>
    /\ requests = 0
    /\ reading = 0
    /\ failure = None
    /\ invoked = <<>>
    /\ pending = <<>>
    /\ sent = 0
    /\ peer_closed = FALSE
    /\ tree = ServingTree
    /\ panicked = FALSE
    /\ lastCall = [op |-> "add", method |-> "Get", path |-> <<"/", "a">>,
                   handler |-> "h1", result |-> "self", replaced |-> None]
    /\ registered = (<<Route(<<"/", "a">>), "Get">> :> "h1")
    /\ wildcards = {}
    /\ stream = IdleStream
    /\ sendLog = IdleSendLog
    /\ writer = <<>>
    /\ response = IdleResponse
    /\ ncalls = 1
    /\ max_connections = 1
    /\ semaphore = 1
    /\ loopPc = "acquire"
    /\ permit = FALSE
    /\ tasks = NoTasks
    /\ accepted = 0
    /\ acceptErrors = 0
    /\ run_result = None
    /\ heap = <<HeapNode>>
    /\ procs = [p \in ProcIds |-> IdleProc]
    /\ scan = IdleScan
    /\ body = IdleBody

SpecRouter == RouterInit /\ [][RouterNext]_vars

SpecServer == ServerInit /\ [][ServerNext]_vars

\* The server with handlers that return and peers that send, close or stay
\* silent until the read timeout fires: the accept loop is run when a
\* permit is free, a task in ReadingHeaders leaves that state, a task in
\* Dispatching gets its response.  When a write to a peer completes is up
\* to the peer: response.send is awaited without a timer.
SpecServerFair ==
    /\ ServerInit
    /\ [][ServerNext]_vars
    /\ WF_vars(BindOk \/ BindErr)
    /\ WF_vars(Acquire)
    /\ \A i \in TaskIds :
          /\ WF_vars(\/ TaskHeadersRead(i)
                     \/ \E res \in Results :
                           tasks[i].st = "ReadingHeaders" /\ TaskEnd(i, res))
          /\ WF_vars(TaskDispatched(i))

SpecConnection == ConnInit /\ [][ConnNext]_vars

\* The connection with its timer: timeout(self.timeout, reader.read(..))
\* fires when it is due.  What the peer does, and so whether a write to it
\* completes, is under no such condition.
SpecConnectionTimed == ConnInit /\ [][ConnNext]_vars /\ WF_vars(ReadTimeout)

\* HttpRouter::new() cloned into the tasks, none of which has called yet.
ConcInit ==
    /\ heap = <<HeapNode>>
    /\ procs = [p \in ProcIds |-> IdleProc]
    /\ scan = IdleScan
    /\ body = IdleBody
    /\ tree = EmptyTree
    /\ panicked = FALSE
    /\ lastCall = NoCall
    /\ registered = <<>>
    /\ wildcards = {}
    /\ stream = IdleStream
    /\ sendLog = IdleSendLog
    /\ writer = <<>>
    /\ response = IdleResponse
    /\ ncalls = 0
    /\ max_connections = 1
    /\ semaphore = 1
    /\ loopPc = "acquire"
    /\ permit = FALSE
    /\ tasks = NoTasks
    /\ accepted = 0
    /\ acceptErrors = 0
    /\ run_result = None
    /\ buffer_size = MaxBufferSize
    /\ keep_alive = TRUE
    /\ c_state = "ReadingHeaders"
    /\ buffer = <<>>
    /\ request = NoRequest
    /\ connection_keep_alive = FALSE
    /\ handler = None
    /\ result = None
    /\ written = <<>>
    /\ requests = 0
    /\ reading = 0
    /\ failure = None
    /\ invoked = <<>>
    /\ pending = <<>>
    /\ sent = 0
    /\ peer_closed = FALSE

SpecRouterConc == ConcInit /\ [][ConcNext]_vars

\* The tasks under a fair scheduler: a task that can run its statement is
\* run, and tokio's RwLock hands a guard to every task that waits for it
\* (its waiters are served in order, so none is passed over for ever).
SpecRouterConcFair ==
    /\ ConcInit
    /\ [][ConcNext]_vars
    /\ \A p \in ProcIds :
          /\ WF_vars(ConcCheck(p) \/ ConcInsert(p) \/ ConcGet(p) \/ ConcHandlers(p))
          /\ SF_vars(ConcAcquire(p))


\* Any buffer, not scanned yet.
UtilsInit ==
    /\ scan \in [buffer : ScanBuffers, done : {FALSE}, result : {Nothing}]
    /\ heap = <<HeapNode>>
    /\ procs = [p \in ProcIds |-> IdleProc]
    /\ tree = EmptyTree
    /\ panicked = FALSE
    /\ lastCall = NoCall
    /\ registered = <<>>
    /\ wildcards = {}
    /\ stream = IdleStream
    /\ sendLog = IdleSendLog
    /\ writer = <<>>
    /\ response = IdleResponse
    /\ body = IdleBody
    /\ ncalls = 0
    /\ max_connections = 1
    /\ semaphore = 1
    /\ loopPc = "acquire"
    /\ permit = FALSE
    /\ tasks = NoTasks
    /\ accepted = 0
    /\ acceptErrors = 0
    /\ run_result = None
    /\ buffer_size = MaxBufferSize
    /\ keep_alive = TRUE
    /\ c_state = "ReadingHeaders"
    /\ buffer = <<>>
    /\ request = NoRequest
    /\ connection_keep_alive = FALSE
    /\ handler = None
    /\ result = None
    /\ written = <<>>
    /\ requests = 0
    /\ reading = 0
    /\ failure = None
    /\ invoked = <<>>
    /\ pending = <<>>
    /\ sent = 0
    /\ peer_closed = FALSE

SpecUtils == UtilsInit /\ [][UtilsNext]_vars


\* Any body a caller can construct, not read yet.
BodyInit ==
    /\ body \in Bodies
    /\ scan = IdleScan
    /\ heap = <<HeapNode>>
    /\ procs = [p \in ProcIds |-> IdleProc]
    /\ tree = EmptyTree
    /\ panicked = FALSE
    /\ lastCall = NoCall
    /\ registered = <<>>
    /\ wildcards = {}
    /\ stream = IdleStream
    /\ sendLog = IdleSendLog
    /\ writer = <<>>
    /\ response = IdleResponse
    /\ ncalls = 0
    /\ max_connections = 1
    /\ semaphore = 1
    /\ loopPc = "acquire"
    /\ permit = FALSE
    /\ tasks = NoTasks
    /\ accepted = 0
    /\ acceptErrors = 0
    /\ run_result = None
    /\ buffer_size = MaxBufferSize
    /\ keep_alive = TRUE
    /\ c_state = "ReadingHeaders"
    /\ buffer = <<>>
    /\ request = NoRequest
    /\ connection_keep_alive = FALSE
    /\ handler = None
    /\ result = None
    /\ written = <<>>
    /\ requests = 0
    /\ reading = 0
    /\ failure = None
    /\ invoked = <<>>
    /\ pending = <<>>
    /\ sent = 0
    /\ peer_closed = FALSE

SpecBody == BodyInit /\ [][BodyNext]_vars


\* HttpResponse::new(code, text), nothing written yet.
ResponseInit ==
    /\ response \in { NewResponse(l[1], l[2]) : l \in StatusLines }
    /\ writer = <<>>
    /\ sendLog = IdleSendLog
    /\ body = IdleBody
    /\ scan = IdleScan
    /\ heap = <<HeapNode>>
    /\ procs = [p \in ProcIds |-> IdleProc]
    /\ tree = EmptyTree
    /\ panicked = FALSE
    /\ lastCall = NoCall
    /\ registered = <<>>
    /\ wildcards = {}
    /\ stream = IdleStream
    /\ ncalls = 0
    /\ max_connections = 1
    /\ semaphore = 1
    /\ loopPc = "acquire"
    /\ permit = FALSE
    /\ tasks = NoTasks
    /\ accepted = 0
    /\ acceptErrors = 0
    /\ run_result = None
    /\ buffer_size = MaxBufferSize
    /\ keep_alive = TRUE
    /\ c_state = "ReadingHeaders"
    /\ buffer = <<>>
    /\ request = NoRequest
    /\ connection_keep_alive = FALSE
    /\ handler = None
    /\ result = None
    /\ written = <<>>
    /\ requests = 0
    /\ reading = 0
    /\ failure = None
    /\ invoked = <<>>
    /\ pending = <<>>
    /\ sent = 0
    /\ peer_closed = FALSE

SpecResponse == ResponseInit /\ [][ResponseNext]_vars

\* from_stream is called on a stream a peer writes to.
StreamInit ==
    /\ scan = IdleScan
    /\ stream \in { NewStream(w) : w \in StreamWires }
    /\ heap = <<HeapNode>>
    /\ procs = [p \in ProcIds |-> IdleProc]
    /\ tree = EmptyTree
    /\ panicked = FALSE
    /\ lastCall = NoCall
    /\ registered = <<>>
    /\ wildcards = {}
    /\ sendLog = IdleSendLog
    /\ writer = <<>>
    /\ response = IdleResponse
    /\ body = IdleBody
    /\ ncalls = 0
    /\ max_connections = 1
    /\ semaphore = 1
    /\ loopPc = "acquire"
    /\ permit = FALSE
    /\ tasks = NoTasks
    /\ accepted = 0
    /\ acceptErrors = 0
    /\ run_result = None
    /\ buffer_size = MaxBufferSize
    /\ keep_alive = TRUE
    /\ c_state = "ReadingHeaders"
    /\ buffer = <<>>
    /\ request = NoRequest
    /\ connection_keep_alive = FALSE
    /\ handler = None
    /\ result = None
    /\ written = <<>>
    /\ requests = 0
    /\ reading = 0
    /\ failure = None
    /\ invoked = <<>>
    /\ pending = <<>>
    /\ sent = 0
    /\ peer_closed = FALSE

SpecRequest == StreamInit /\ [][RequestNext]_vars

(***************************************************************************)
(* History of the connection used by the claims.                           *)
(***************************************************************************)
\* A response was completely written in this step.
ResponseSent ==
    /\ c_state = "Writing"
    /\ Len(written') = Len(written) + 1
    /\ written'[Len(written')].complete

\* Request k has a completely written response.
Answered(k) == \E i \in DOMAIN written : written[i].req = k /\ written[i].complete

(***************************************************************************)
(* C3: after a response is written the connection stays open exactly when  *)
(* keep_alive is configured and the request asks for it: an HTTP/1.1       *)
(* request without Connection: close, any other version with Connection:   *)
(* keep-alive.                                                             *)
(***************************************************************************)
C3_KeepAliveDecision ==
    [][ResponseSent =>
          ((c_state' = "ReadingHeaders") <=> KeepAliveDecision(request, keep_alive))
      ]_vars

(***************************************************************************)
(* C4: the response to request k is completely written before any socket   *)
(* read for request k+1, and the connection moves only from ReadingHeaders *)
(* to Dispatching, from Dispatching to Writing, and from Writing back to   *)
(* ReadingHeaders or to Closed (ReadingHeaders also ends in Closed when    *)
(* the read fails or the peer has closed).                                 *)
(***************************************************************************)
StateOrder ==
    { <<"ReadingHeaders", "Dispatching">>,
      <<"Dispatching", "Writing">>,
      <<"Writing", "ReadingHeaders">>,
      <<"Writing", "Closed">>,
      <<"ReadingHeaders", "Closed">> }

C4_Serialized ==
    /\ [](\A k \in 1..(reading - 1) : Answered(k))
    /\ [](c_state = "ReadingHeaders" => \A k \in 1..requests : Answered(k))
    /\ [](c_state \in {"Dispatching", "Writing"} => Len(written) = requests - 1)
    /\ [][c_state' # c_state => <<c_state, c_state'>> \in StateOrder]_vars

C4_Witness ==
    /\ reading = 2
    /\ requests = 2
    /\ c_state = "Writing"
    /\ Answered(1)

(***************************************************************************)
(* C5: when find_handler returns no handler the connection writes a 404    *)
(* and then applies the loop decision of any other response: it returns to *)
(* ReadingHeaders when keep-alive was decided, and closes otherwise.       *)
(***************************************************************************)
C5_NoRouteKeepsConnection ==
    [][(ResponseSent /\ handler = None) =>
          /\ written'[Len(written')].status = 404
          /\ connection_keep_alive => c_state' = "ReadingHeaders"
          /\ ~connection_keep_alive => c_state' = "Closed"
      ]_vars

(***************************************************************************)
(* C6: a read timeout, a socket read error, an oversized header block or a *)
(* write error ends process() at once with the error of its kind; Closed   *)
(* is terminal: the closed connection reads nothing more, retries nothing  *)
(* and writes nothing more.                                                *)
(***************************************************************************)
ErrorOf(f) ==
    IF f = "timeout" THEN "TimeoutError"
    ELSE IF f = "oversized" THEN "ProtocolError"
    ELSE "IOError"

C6_ErrorsCloseConnection ==
    /\ [](failure # None => c_state = "Closed" /\ result = ErrorOf(failure))
    /\ [](c_state = "Closed" <=> result # None)
    /\ [](result \notin {None, "Ok"} => failure # None)
    /\ [][c_state = "Closed" =>
            /\ UNCHANGED <<c_state, result, failure, buffer, request, handler,
                           written, requests, reading, tree>>
            /\ Len(pending') >= Len(pending)
        ]_vars

C6_Witness ==
    /\ failure = "timeout"
    /\ result = "TimeoutError"
    /\ requests = 1
    /\ Answered(1)
    /\ pending # <<>>
    /\ sent = MaxRequests

(***************************************************************************)
(* C7: when the buffered bytes reach buffer_size and hold no \r\n\r\n,     *)
(* process() returns ProtocolError and nothing is written for the request; *)
(* when the bytes read hold the terminator, also when it ends at the last  *)
(* byte of the buffer, the request goes to Dispatching.                    *)
(***************************************************************************)
C7_OversizedHeaders ==
    /\ [](failure = "oversized" =>
            /\ result = "ProtocolError"
            /\ Len(buffer) = buffer_size
            /\ FindHeadersEnd(buffer) = Nothing
            /\ \A i \in DOMAIN written : written[i].req <= requests)
    /\ [](result = "ProtocolError" => failure = "oversized")
    /\ [](c_state = "ReadingHeaders" =>
            Len(buffer) < buffer_size /\ FindHeadersEnd(buffer) = Nothing)
    /\ [](c_state \in {"Dispatching", "Writing"} =>
            FindHeadersEnd(buffer) # Nothing /\ Len(buffer) <= buffer_size)
    /\ [][(c_state = "ReadingHeaders" /\ buffer' # buffer
           /\ FindHeadersEnd(buffer') # Nothing) => c_state' = "Dispatching"]_vars

C7_Witness ==
    /\ failure = "oversized"
    /\ \E i \in DOMAIN written :
          /\ written[i].complete
          /\ written[i].len = buffer_size

(***************************************************************************)
(* C11: under any interleaving of add and find_handler, once an            *)
(* add(m, p, h) has returned, a find_handler(p, m) that runs later returns *)
(* a handler that was registered for (p, m): no registration that has      *)
(* completed is lost.                                                      *)
(***************************************************************************)
RegisteredFor(route, method) ==
    { procs[q].hfn : q \in { r \in ProcIds :
          /\ procs[r].op = "add"
          /\ Route(procs[r].path) = route
          /\ procs[r].method = method } }

C11_NoLostRegistration ==
    \A p \in ProcIds :
        (procs[p].op = "add" /\ procs[p].pc = "done") =>
            HeapLookup(heap, 1, Route(procs[p].path), procs[p].method)
                \in RegisteredFor(Route(procs[p].path), procs[p].method)

(***************************************************************************)
(* C12: find_headers_end(buffer) returns Some(i + 4) for the smallest      *)
(* index i (from 0) at which \r\n\r\n occurs in buffer, and None exactly   *)
(* when it occurs nowhere, as in every buffer shorter than 4 bytes.        *)
(***************************************************************************)
OccursAt(buf, i) ==
    /\ i + 4 <= Len(buf)
    /\ \A k \in 1..4 : buf[i + k] = <<CR, LF, CR, LF>>[k]

C12_FindHeadersEnd ==
    scan.done =>
        LET buf == scan.buffer
            occ == {i \in 0..Len(buf) : OccursAt(buf, i)}
        IN  /\ (occ = {}) <=> (scan.result = Nothing)
            /\ Len(buf) < 4 => scan.result = Nothing
            /\ \A i \in occ :
                  (\A j \in occ : i <= j) => scan.result = Some(i + 4)

\* A buffer that holds the sequence at 0 and again at 2 was scanned.
C12_Witness ==
    /\ scan.done
    /\ OccursAt(scan.buffer, 0) /\ OccursAt(scan.buffer, 2)
    /\ scan.result = Some(4)

(***************************************************************************)
(* C13: a body made by from_data(d) with d non-empty returns the whole of  *)
(* d as one chunk on the first read_next and None on every later one;     *)
(* from_data of no bytes is the Empty variant, and every read_next of it   *)
(* returns None.                                                           *)
(***************************************************************************)
C13_InMemorySinglePass ==
    body.made = "from_data" =>
        /\ body.source = <<>> =>
              /\ body.value = EmptyBody
              /\ \A i \in DOMAIN body.returned : body.returned[i] = RetNone
        /\ body.source # <<>> =>
              /\ body.value.kind = "InMemory"
              /\ \A i \in DOMAIN body.returned :
                    body.returned[i] =
                        IF i = 1 THEN RetSome(body.source) ELSE RetNone

\* An in-memory body of several bytes was read three times.
C13_Witness ==
    /\ body.made = "from_data"
    /\ Len(body.source) > 1
    /\ Len(body.returned) = 3
    /\ body.returned[3] = RetNone

(***************************************************************************)
(* C14: for a streaming body made by from_reader(source, chunk_size) over  *)
(* a finite source, the chunks that read_next returns until it returns     *)
(* None are, joined in order, the whole source, for chunk sizes smaller    *)
(* and larger than the source.                                             *)
(***************************************************************************)
RECURSIVE Concat(_)
Concat(rets) ==
    IF rets = <<>> THEN <<>> ELSE Head(rets).chunk \o Concat(Tail(rets))

FirstNone(rets) ==
    IF \E i \in DOMAIN rets : rets[i].tag = "None"
    THEN CHOOSE i \in DOMAIN rets :
            /\ rets[i].tag = "None"
            /\ \A j \in 1..(i - 1) : rets[j].tag # "None"
    ELSE 0

C14_StreamingConcat ==
    (body.made = "from_reader" /\ FirstNone(body.returned) > 0) =>
        Concat(SubSeq(body.returned, 1, FirstNone(body.returned))) = body.source

\* A source longer than the chunk size was read to its end in several
\* chunks.
C14_Witness ==
    /\ body.made = "from_reader"
    /\ body.value.buffer_size < Len(body.source)
    /\ FirstNone(body.returned) > 2
    /\ \E i \in DOMAIN body.returned :
          /\ body.returned[i].tag = "Some"
          /\ Len(body.returned[i].chunk) = body.value.buffer_size

(***************************************************************************)
(* C15: send writes exactly one line `Content-Length: n` and no            *)
(* Transfer-Encoding line when the response is not chunked, the length n   *)
(* of its body is known and no Content-Length header was set; when a       *)
(* Content-Length header was set it is written once, with the value that   *)
(* was set; when the length is unknown or the body is Empty no             *)
(* Content-Length line is written.                                         *)
(***************************************************************************)
SentOk == sendLog.sent /\ sendLog.result = "Ok"

\* The lines written before the first \r\n\r\n, without the status line.
WrittenHeaderLines ==
    LET end == FindHeadersEnd(writer)
    IN  IF end = Nothing THEN <<>>
        ELSE Tail(Lines(SubSeq(writer, 1, end[1] - 4)))

IsHeaderLine(line, key) ==
    Len(line) >= 3 /\ line[1] = key /\ line[2] = COLON /\ line[3] = SP

LinesOf(key) ==
    {i \in DOMAIN WrittenHeaderLines : IsHeaderLine(WrittenHeaderLines[i], key)}

ValueOf(line) == SubSeq(line, 4, Len(line))

C15_ContentLength ==
    SentOk =>
        LET pre    == sendLog.pre
            length == ContentLength(pre.body)
            set    == "Content-Length" \in DOMAIN pre.headers
            lines  == LinesOf("Content-Length")
        IN  /\ (~pre.chunked_encoding /\ length # Nothing /\ ~set) =>
                  /\ Cardinality(lines) = 1
                  /\ \A i \in lines :
                        ValueOf(WrittenHeaderLines[i]) = Dec(length[1])
                  /\ LinesOf("Transfer-Encoding") = {}
            /\ set =>
                  /\ Cardinality(lines) = 1
                  /\ \A i \in lines :
                        ValueOf(WrittenHeaderLines[i]) = pre.headers["Content-Length"]
            /\ ((length = Nothing \/ pre.body = EmptyBody) /\ ~set) =>
                  lines = {}

\* A response with another header and an in-memory body of 11 bytes was
\* sent.
C15_Witness ==
    /\ SentOk
    /\ ~sendLog.pre.chunked_encoding
    /\ sendLog.pre.body = InMemory(Bytes(11))
    /\ DOMAIN sendLog.pre.headers = {"Content-Type"}
    /\ \E i \in LinesOf("Content-Length") :
          ValueOf(WrittenHeaderLines[i]) = <<"1", "1">>

(***************************************************************************)
(* C16: for a chunked response whose body gives out the chunks c1..cn,     *)
(* send writes after the header block, for each non-empty ci in order, its *)
(* length in hexadecimal, \r\n, its bytes, \r\n, and then 0\r\n\r\n, once   *)
(* and last; an empty chunk is left out; the header block has the line     *)
(* Transfer-Encoding: chunked.                                             *)
(***************************************************************************)
WrittenBody ==
    LET end == FindHeadersEnd(writer)
    IN  IF end = Nothing THEN <<>> ELSE SubSeq(writer, end[1] + 1, Len(writer))

RECURSIVE Framed(_)
Framed(chunks) ==
    IF chunks = <<>> THEN <<>>
    ELSE IF Head(chunks) = <<>> THEN Framed(Tail(chunks))
    ELSE Hex(Len(Head(chunks))) \o <<CR, LF>> \o Head(chunks) \o <<CR, LF>>
            \o Framed(Tail(chunks))

Terminator == <<"0", CR, LF, CR, LF>>

C16_ChunkedFraming ==
    (SentOk /\ sendLog.pre.chunked_encoding) =>
        /\ WrittenBody = Framed(sendLog.chunks) \o Terminator
        /\ \E i \in LinesOf("Transfer-Encoding") :
              ValueOf(WrittenHeaderLines[i]) = <<"chunked">>

\* A streaming body of 17 bytes was sent as a chunk of 16 (10 in
\* hexadecimal) and a chunk of 1.
C16_Witness ==
    /\ SentOk
    /\ sendLog.pre.chunked_encoding
    /\ sendLog.chunks = <<Bytes(16), Bytes(1)>>
    /\ WrittenBody = <<"1", "0", CR, LF>> \o Bytes(16) \o <<CR, LF>>
                      \o <<"1", CR, LF, "x", CR, LF>> \o Terminator

(***************************************************************************)
(* C17: the bytes that send writes for a response with a non-empty         *)
(* in-memory body, split at the first \r\n\r\n and read line by line, give *)
(* back the status line `HTTP/1.1 {code} {text}`, the headers that were    *)
(* set and a Content-Length equal to the length of the body, and after     *)
(* them the bytes of the body.                                             *)
(***************************************************************************)
\* A header line read back: the name before the first ':' and the value
\* after it, without the space between.
ReadHeader(line) ==
    LET colon == CHOOSE i \in DOMAIN line :
                    line[i] = COLON /\ \A j \in 1..(i - 1) : line[j] # COLON
    IN  <<SubSeq(line, 1, colon - 1), TrimLeft(SubSeq(line, colon + 1, Len(line)))>>

C18_UnsupportedNoRoute ==
    LET unsupported == MethodFrom(<<"PUT">>) IN
    /\ unsupported = "NoSupport"
    /\ \A k \in DOMAIN registered : k[2] # unsupported
    /\ \A p \in DOMAIN tree : tree[p].handlers[unsupported] = None
    /\ (lastCall.op = "find" /\ lastCall.method = unsupported) =>
          lastCall.result = None

(***************************************************************************)
(* C19: add(m, p, h2) after add(m, p, h1) makes find_handler(p, m) return  *)
(* h2, and leaves the handlers of other methods at p and of other paths    *)
(* as they were.                                                           *)
(***************************************************************************)
C19_Overwrite ==
    [][(ncalls' # ncalls /\ lastCall'.op = "add" /\ lastCall'.result = "self") =>
          LET r == Route(lastCall'.path)
              m == lastCall'.method
          IN  /\ RouterFind(tree', lastCall'.path, m).result = lastCall'.handler
              /\ \A q \in DOMAIN tree, m2 \in HttpMethod :
                    <<q, m2>> # <<r, m>> =>
                        HandlerAt(tree', q, m2) = HandlerAt(tree, q, m2)]_vars

\* h2 was registered where h1 was, while another handler is registered
\* elsewhere.
C19_Witness ==
    /\ lastCall.op = "add"
    /\ lastCall.replaced = "h1"
    /\ lastCall.handler = "h2"
    /\ RouterFind(tree, lastCall.path, lastCall.method).result = "h2"
    /\ \E k \in DOMAIN registered :
          /\ k # <<Route(lastCall.path), lastCall.method>>
          /\ registered[k] = "h1"

(***************************************************************************)
(* C20: two paths with the same sequence of non-empty segments between the *)
(* `/` are the same route: add on either registers at the same node and    *)
(* find_handler on either returns the same result.                         *)
(***************************************************************************)
SameSegments(p, q) == NonEmpty(Split(p)) = NonEmpty(Split(q))

C20_Normalization ==
    [][ncalls' # ncalls =>
          \A q \in RouterPaths :
              SameSegments(q, lastCall'.path) =>
                  /\ lastCall'.op = "add" =>
                        RouterAdd(tree, lastCall'.method, q, lastCall'.handler)
                            = [tree |-> tree', panicked |-> panicked']
                  /\ lastCall'.op = "find" =>
                        RouterFind(tree, q, lastCall'.method)
                            = [tree |-> tree', result |-> lastCall'.result]]_vars

\* A handler registered for /a//b/ was found for /a/b, and one registered
\* for // is found for the empty path.
C20_Witness ==
    /\ lastCall.op = "find"
    /\ lastCall.path = <<"/", "a", "/", "b">>
    /\ lastCall.result = "h1"
    /\ RouterFind(tree, <<"/", "a", "/", "/", "b", "/">>, lastCall.method).result = "h1"
    /\ RouterFind(tree, <<>>, "Post").result = "h2"
    /\ RouterFind(tree, <<"/", "/">>, "Post").result = "h2"
    /\ Cardinality(DOMAIN registered) = 2

(***************************************************************************)
(* C21: content_length() returns Some(n) for an InMemory body that holds   *)
(* n bytes and None for a Streaming and for an Empty body; is_streaming()  *)
(* is true exactly for a Streaming body; neither call changes the body.    *)
(***************************************************************************)
\* The bytes of the source that read_next has not given out yet.
Unread ==
    IF \E i \in DOMAIN body.returned : body.returned[i].tag = "Some"
    THEN <<>> ELSE body.source

C21_BodyQueries ==
    [][body'.query # body.query =>
          /\ body'.value = body.value
          /\ body'.returned = body.returned
          /\ body'.query.op = "content_length" =>
                /\ (body.made \in {"from", "from_data"} /\ body.value # EmptyBody) =>
                      body'.query.length = Some(Len(Unread))
                /\ body.made = "from_reader" => body'.query.length = Nothing
                /\ body.value = EmptyBody => body'.query.length = Nothing
          /\ body'.query.op = "is_streaming" =>
                (body'.query.streaming <=> body.made = "from_reader")]_vars

\* The length of an in-memory body was asked before and after it was read,
\* and a streaming body was asked whether it is one.
C21_Witness ==
    /\ body.query.op = "content_length"
    /\ body.made = "from_data"
    /\ Len(body.source) = 2
    /\ Len(body.returned) = 1
    /\ body.query.length = Some(0)

(***************************************************************************)
(* C22: a failed accept is not fatal: after listener.accept() returns an   *)
(* error the loop goes on to its next iteration, and once the listener is  *)
(* bound run() never returns, so the loop keeps accepting.                 *)
(***************************************************************************)
C22_AcceptErrorNotFatal ==
    /\ [][(loopPc = "accept" /\ accepted' = accepted /\ loopPc' # loopPc) =>
            (loopPc' = "acquire" /\ run_result' = None /\ tasks' = tasks)]_vars
    /\ [][(loopPc \in {"acquire", "accept"}) =>
            (loopPc' \in {"acquire", "accept"} /\ run_result' = None)]_vars
    /\ [](acceptErrors > 0 => run_result = None)

\* After a failed accept the loop has taken a permit again and waits in
\* accept, before any connection was accepted.
C22_Witness ==
    /\ acceptErrors = 1
    /\ accepted = 0
    /\ loopPc = "accept"
    /\ permit
    /\ run_result = None

(***************************************************************************)
(* C23: when a connection task ends with an error, every other task is     *)
(* where it was in its own state machine and the accept loop is where it   *)
(* was: the error stays in the task.                                       *)
(***************************************************************************)
C23_ErrorIsolation ==
    [][(\A i \in TaskIds :
          (/\ tasks[i].st \in LiveStates
           /\ tasks'[i].st = "ended"
           /\ tasks'[i].result # "Ok") =>
              /\ \A j \in TaskIds \ {i} : tasks'[j] = tasks[j]
              /\ loopPc' = loopPc
              /\ permit' = permit
              /\ accepted' = accepted
              /\ run_result' = None)]_vars

\* One task has ended with an error while another is writing its response
\* and the loop waits in accept.
C23_Witness ==
    /\ \E i \in TaskIds :
          tasks[i].st = "ended" /\ tasks[i].result = "ProtocolError"
    /\ \E j \in TaskIds : tasks[j].st = "Writing"
    /\ loopPc = "accept"
    /\ run_result = None

(***************************************************************************)
(* C30: run() on an address that cannot be bound returns the error         *)
(* ConfigError, before any permit is acquired and any connection accepted, *)
(* and run() returns in no other way.                                      *)
(***************************************************************************)
C30_BindFailure ==
    run_result # None =>
        /\ run_result = "ConfigError"
        /\ semaphore = max_connections
        /\ ~permit
        /\ accepted = 0
        /\ acceptErrors = 0

(***************************************************************************)
(* C24: every response the connection writes in full, the 404 included,    *)
(* carries a Connection header: keep-alive exactly when the connection     *)
(* then returns to ReadingHeaders, close exactly when it is closed after   *)
(* the response.                                                           *)
(***************************************************************************)
C24_ConnectionHeader ==
    [][(written' # written /\ written'[Len(written')].complete) =>
          LET sent_response == written'[Len(written')]
          IN  /\ sent_response.connection \in {"keep-alive", "close"}
              /\ sent_response.connection = "keep-alive" <=>
                    c_state' = "ReadingHeaders"
              /\ sent_response.connection = "close" <=> c_state' = "Closed"]_vars

(***************************************************************************)
(* C25: in Dispatching, a header block that is not valid UTF-8, or whose   *)
(* first line does not split on whitespace into exactly 3 tokens, is a     *)
(* protocol error: process() returns an error, no handler is invoked and   *)
(* no response is written.                                                 *)
(***************************************************************************)
Malformed(block) ==
    \/ \E i \in DOMAIN block : block[i] = InvalidByte
    \/ Lines(block) = <<>>
    \/ Len(SplitWhitespace(Lines(block)[1])) # 3

C25_MalformedIsProtocolError ==
    [][(c_state = "Dispatching" /\ c_state' # c_state /\ Malformed(buffer)) =>
          /\ c_state' = "Closed"
          /\ result' = "ProtocolError"
          /\ handler' = None
          /\ written' = written]_vars

(***************************************************************************)
(* C26: a 0-byte read in ReadingHeaders, with nothing or with part of a    *)
(* header block in the buffer, ends the connection cleanly: process()      *)
(* returns Ok(()), no handler is invoked and nothing is written.  The      *)
(* 0-byte read is the read of a closed peer with nothing pending that      *)
(* neither times out nor fails.                                            *)
(***************************************************************************)
C26_EofEndsCleanly ==
    [][(/\ c_state = "ReadingHeaders"
        /\ peer_closed
        /\ pending = <<>>
        /\ reading' = requests + 1
        /\ failure' \notin {"timeout", "read error"}) =>
          /\ c_state' = "Closed"
          /\ result' = "Ok"
          /\ handler' = handler
          /\ requests' = requests
          /\ written' = written]_vars

\* A keep-alive connection answered one request, then read part of a second
\* header block and then 0 bytes.
C26_Witness ==
    /\ c_state = "Closed"
    /\ result = "Ok"
    /\ peer_closed
    /\ buffer = <<"GET", SP, "/", "a">>
    /\ requests = 1
    /\ Len(written) = 1
    /\ reading = 2

(***************************************************************************)
(* C27: socket writes are time-bounded like reads: a connection in the     *)
(* Writing state leaves it, by the end of the write or by a timeout that   *)
(* aborts the connection, whatever the peer does.                          *)
(***************************************************************************)
C27_WriteTimeBounded == (c_state = "Writing") ~> (c_state # "Writing")

(***************************************************************************)
(* C28: for a request built by from_stream, the chunks read_next() gives   *)
(* are, concatenated, the bytes that followed the header terminator on the *)
(* stream, the ones already read with the headers first, none lost and     *)
(* none twice; the body is Streaming exactly when such bytes were already  *)
(* read or a Content-Length or Transfer-Encoding header is present, and    *)
(* Empty otherwise.                                                        *)
(***************************************************************************)
AfterHeaders(wire) ==
    LET end == FindHeadersEnd(wire)
    IN  IF end = Nothing THEN <<>> ELSE SubSeq(wire, end[1] + 1, Len(wire))

Delivered == Concat(stream.chunks)

C28_FromStreamBody ==
    stream.pc = "built" =>
        /\ stream.body.kind = "Streaming" <=>
              \/ stream.pre_read # <<>>
              \/ ContainsKey(stream.request.headers, <<"Content-Length">>)
              \/ ContainsKey(stream.request.headers, <<"Transfer-Encoding">>)
        /\ stream.body.kind \in {"Streaming", "Empty"}
        /\ stream.body.kind = "Streaming" =>
              /\ Len(Delivered) <= Len(AfterHeaders(stream.wire))
              /\ Delivered = SubSeq(AfterHeaders(stream.wire), 1, Len(Delivered))
              /\ FirstNone(stream.chunks) > 0 =>
                    Delivered = AfterHeaders(stream.wire)

(***************************************************************************)
(* C29: every response whose body is the Streaming variant when send is    *)
(* called is sent in chunked mode, whichever way the body was attached:    *)
(* the chunked flag is set, the header block has Transfer-Encoding:        *)
(* chunked, and the body is written as chunks with the terminator.         *)
(***************************************************************************)
C29_StreamingIsChunked ==
    (SentOk /\ sendLog.pre.body.kind = "Streaming") =>
        /\ sendLog.pre.chunked_encoding
        /\ \E i \in LinesOf("Transfer-Encoding") :
              ValueOf(WrittenHeaderLines[i]) = <<"chunked">>
        /\ WrittenBody = Framed(sendLog.chunks) \o Terminator

(***************************************************************************)
(* C31: the keep-alive decision takes the Connection header whatever the   *)
(* case of its name and of its value: a request that spells the name       *)
(* connection or CONNECTION is decided exactly as the same request with    *)
(* the name spelled Connection.                                            *)
(***************************************************************************)
CanonicalName(k) ==
    IF k \in { <<"connection">>, <<"CONNECTION">> } THEN <<"Connection">> ELSE k

Canonical(req) ==
    LET hs == req.headers
    IN  [req EXCEPT !.headers =
            [k \in { CanonicalName(j) : j \in DOMAIN hs } |->
                hs[CHOOSE j \in DOMAIN hs : CanonicalName(j) = k]]]

C31_HeaderNameCase ==
    [][(c_state = "Dispatching" /\ c_state' = "Writing") =>
          (connection_keep_alive' = KeepAliveDecision(Canonical(request'), keep_alive))
      ]_vars

(***************************************************************************)
(* C32: header lines are split on their first ':' only: the parsed headers *)
(* map the trimmed name of each line with a ':' to its trimmed full value, *)
(* also when the value has a ':' in it; lines without ':' are skipped,     *)
(* parsing stops at the first blank line, a repeated name keeps the last   *)
(* value; HttpRequest::from and from_stream/parse_headers give the same    *)
(* headers for the same header block.                                      *)
(***************************************************************************)
\* The header lines of a block: after the request line, up to the first
\* blank line.
HeaderLinesOf(block) ==
    LET lines == Tail(Lines(block))
        blank == CHOOSE i \in 1..(Len(lines) + 1) :
                    /\ i = Len(lines) + 1 \/ lines[i] = <<>>
                    /\ \A j \in 1..(i - 1) : lines[j] # <<>>
    IN  SubSeq(lines, 1, blank - 1)

HasColon(line) == \E i \in DOMAIN line : line[i] = COLON

FirstColon(line) ==
    CHOOSE i \in DOMAIN line : line[i] = COLON /\ \A j \in 1..(i - 1) : line[j] # COLON

NameOf(line) == Trim(SubSeq(line, 1, FirstColon(line) - 1))

FullValueOf(line) == Trim(SubSeq(line, FirstColon(line) + 1, Len(line)))

ExpectedHeaders(block) ==
    LET lines == HeaderLinesOf(block)
        with  == { i \in DOMAIN lines : HasColon(lines[i]) }
    IN  [k \in { NameOf(lines[i]) : i \in with } |->
            FullValueOf(lines[CHOOSE i \in with :
                                /\ NameOf(lines[i]) = k
                                /\ \A j \in with : NameOf(lines[j]) = k => j <= i])]

HeaderBlock == SubSeq(stream.buffer, 1, FindHeadersEnd(stream.buffer)[1])

C32_HeaderLines ==
    (stream.pc = "built" /\ stream.converted) =>
        /\ stream.request.headers = ExpectedHeaders(HeaderBlock)
        /\ stream.from_str.headers = ExpectedHeaders(HeaderBlock)
        /\ stream.from_str.headers = stream.request.headers

(***************************************************************************)
(* C33: from_stream bounds the accumulation of headers: while the          *)
(* terminator has not been found the accumulated bytes do not exceed the   *)
(* maximum header size (the size of the connection's header buffer), the   *)
(* call failing with a protocol error instead, so that the buffer never    *)
(* grows beyond the maximum plus one read; a stream that ends before the   *)
(* terminator fails with a protocol error.                                 *)
(***************************************************************************)
C33_BoundedAccumulation ==
    /\ stream.pc = "headers" => Len(stream.buffer) <= MaxBufferSize
    /\ Len(stream.buffer) <= MaxBufferSize + MaxStreamRead
    /\ (/\ stream.pc = "failed"
        /\ FindHeadersEnd(stream.buffer) = Nothing
        /\ stream.result # "IOError") => stream.result = "ProtocolError"

(***************************************************************************)
(* C34: per request of a connection at most one handler is called, once,   *)
(* only after the full header block was read and only when the router      *)
(* returned a handler, and it is the handler the router returned; each     *)
(* call is followed by exactly one response write before any further read; *)
(* no response is written without a complete header block before it.       *)
(***************************************************************************)
InvokedFor(k) == { i \in DOMAIN invoked : invoked[i].req = k }

WrittenFor(k) == { i \in DOMAIN written : written[i].req = k }

C34_OneHandlerOneResponse ==
    /\ [](\A k \in 1..requests : Cardinality(InvokedFor(k)) <= 1)
    /\ [](\A i \in DOMAIN invoked : invoked[i].req \in 1..requests)
    /\ [][invoked' # invoked =>
            /\ c_state = "Dispatching"
            /\ FindHeadersEnd(buffer) # Nothing
            /\ handler' # None
            /\ invoked' = Append(invoked, [req |-> requests, handler |-> handler'])
        ]_vars
    /\ [][(c_state = "Dispatching" /\ c_state' # c_state /\ handler' # None) =>
            Len(invoked') = Len(invoked) + 1]_vars
    /\ [](\A i \in DOMAIN invoked :
            IF c_state = "Writing" /\ invoked[i].req = requests
            THEN WrittenFor(invoked[i].req) = {}
            ELSE Cardinality(WrittenFor(invoked[i].req)) = 1)
    /\ [](\A k \in 1..(reading - 1) : Cardinality(WrittenFor(k)) = 1)
    /\ [](\A j \in DOMAIN written :
            /\ written[j].req \in 1..requests
            /\ written[j].handler # None =>
                  \E i \in DOMAIN invoked :
                     invoked[i] = [req |-> written[j].req,
                                   handler |-> written[j].handler])
    /\ [][written' # written =>
            (c_state = "Writing" /\ FindHeadersEnd(buffer) # Nothing)]_vars

\* Two requests of a keep-alive connection were each given to the handler
\* once and answered once, and a third read has begun.
C34_Witness ==
    /\ Len(invoked) = 2
    /\ invoked[1].req = 1
    /\ invoked[2].req = 2
    /\ Len(written) = 2
    /\ reading = 3

(***************************************************************************)
(* C35: router operations are deadlock-free: a call holds at most the one  *)
(* guard its statement awaited and holds none while it waits for a lock;   *)
(* while calls are under way one of them can take a step; under a fair     *)
(* scheduler every call of add and find_handler comes to its end.          *)
(***************************************************************************)
C35_DeadlockFree ==
    /\ [](\A p \in ProcIds :
            procs[p].locks # {} => (InCall(p) /\ procs[p].locks = {Wanted(p)}))
    /\ [](\A p \in ProcIds :
            (InCall(p) /\ ~Todo(p) /\ Wanted(p) \notin procs[p].locks) =>
                procs[p].locks = {})
    /\ []((\E p \in ProcIds : InCall(p)) =>
            \E p \in ProcIds :
                /\ InCall(p)
                /\ Todo(p) \/ Wanted(p) \in procs[p].locks \/ CanAcquire(p))
    /\ \A p \in ProcIds : InCall(p) ~> (procs[p].pc \in {"done", "panicked"})

\* One call holds the write guard of a node's static_routes while another
\* call waits for a guard of the same map, holding none.
C35_Witness ==
    \E p, q \in ProcIds :
        /\ p # q
        /\ procs[p].locks = {[node |-> 1, map |-> "static_routes", mode |-> "write"]}
        /\ InCall(q)
        /\ Wanted(q).node = 1
        /\ Wanted(q).map = "static_routes"
        /\ procs[q].locks = {}
        /\ ~CanAcquire(q)

(***************************************************************************)
(* C36: with handlers that return and peers that send, close or stay       *)
(* silent until the read timeout fires, every connection task comes to its *)
(* end and returns its permit, so that an accept loop waiting for a permit *)
(* while max_connections connections are live gets one and waits in accept *)
(* again.                                                                  *)
(***************************************************************************)
C36_AdmissionLiveness ==
    /\ \A i \in TaskIds :
          (tasks[i].st \in LiveStates) ~> (tasks[i].st = "ended" /\ ~tasks[i].permit)
    /\ (loopPc = "acquire" /\ semaphore = 0) ~> (loopPc = "accept")

====
